---------------------------- MODULE Spec2Model ----------------------------
(***************************************************************************)
(* Model of the natural-language query interpreter (TextQueryService) of   *)
(* the Team Productivity Reporting Platform backend, of its metrics        *)
(* service and router, and of the frontend's ApiClient and Dashboard page. *)
(*                                                                         *)
(* Text is modelled with TLA+ strings (TLC treats a string as the sequence *)
(* of its characters: Len, SubSeq, \o).  Rational results are kept as      *)
(* scaled integers (hundredths).                                           *)
(***************************************************************************)
EXTENDS Integers, Sequences, FiniteSets, TLC

VARIABLES
  store,       \* the database: teams, members, sprints, tickets
  pc,          \* pc[p]: where invocation p stands
  received,    \* received[p]: the text invocation p was called with
  dispatch,    \* dispatch[p]: the rule that matched (0: none), the path
               \* ("pattern", "keyword"; "none": not yet dispatched), the
               \* handler called and the team argument given to it
  foundTeam,   \* foundTeam[p]: the team the handler resolved (NoTeam: none)
  counts,      \* counts[p]: the answers of the two counts of the bug handler
  storeCalls,  \* storeCalls[p]: the store calls made, in order
  dispatched,  \* dispatched[p]: the handlers invoked for the query, in order
  outcome,     \* outcome[p]: "pending", "resolved" or "rejected"
  envelope,    \* envelope[p]: the envelope the promise resolved with
  lastIndex,   \* lastIndex[k]: the lastIndex property of rule k's pattern
  requests,    \* requests[p]: the HTTP exchange of the metrics router that
               \* call p serves: request, stage, responses sent
  returned,    \* returned[p]: what the frontend's ApiClient.processTextQuery
               \* returned for the exchange of call p
  dashboard    \* the Dashboard page: its filters, the loads started and the
               \* state it displays

vars == <<store, pc, received, dispatch, foundTeam, counts, storeCalls, dispatched,
          outcome, envelope, lastIndex, requests, returned, dashboard>>

(***************************************************************************)
(* String primitives of the JavaScript runtime used by the service.        *)
(***************************************************************************)

\* String.prototype.toLowerCase, per character.
UpperToLower ==
  [c \in {"A","B","C","D","E","F","G","H","I","J","K","L","M",
          "N","O","P","Q","R","S","T","U","V","W","X","Y","Z"} |->
     CASE c = "A" -> "a" [] c = "B" -> "b" [] c = "C" -> "c" [] c = "D" -> "d"
       [] c = "E" -> "e" [] c = "F" -> "f" [] c = "G" -> "g" [] c = "H" -> "h"
       [] c = "I" -> "i" [] c = "J" -> "j" [] c = "K" -> "k" [] c = "L" -> "l"
       [] c = "M" -> "m" [] c = "N" -> "n" [] c = "O" -> "o" [] c = "P" -> "p"
       [] c = "Q" -> "q" [] c = "R" -> "r" [] c = "S" -> "s" [] c = "T" -> "t"
       [] c = "U" -> "u" [] c = "V" -> "v" [] c = "W" -> "w" [] c = "X" -> "x"
       [] c = "Y" -> "y" [] c = "Z" -> "z"]

LowerChar(c) == IF c \in DOMAIN UpperToLower THEN UpperToLower[c] ELSE c

RECURSIVE ToLowerCase(_)
ToLowerCase(s) ==
  IF s = "" THEN "" ELSE LowerChar(SubSeq(s, 1, 1)) \o ToLowerCase(Tail(s))

\* Characters matched by \s and stripped by trim().
Whitespace == {" ", "\t", "\n", "\r"}

\* Characters the regular-expression dot does not match.
LineTerminators == {"\n", "\r"}

\* The character class of the team-name capture group: a-z, A-Z, 0-9, \s.
TeamNameChars ==
  {"a","b","c","d","e","f","g","h","i","j","k","l","m",
   "n","o","p","q","r","s","t","u","v","w","x","y","z",
   "0","1","2","3","4","5","6","7","8","9"}
  \cup DOMAIN UpperToLower \cup Whitespace

CharAt(s, i) == SubSeq(s, i, i)

\* Index of the first character at or after i that is not in cls
\* (Len(s) + 1 when there is none): the end of a greedy run of cls.
RECURSIVE SkipWhile(_, _, _)
SkipWhile(s, i, cls) ==
  IF i <= Len(s) /\ CharAt(s, i) \in cls THEN SkipWhile(s, i + 1, cls) ELSE i

\* Index of the last character at or before i that is not in cls (0 if none).
RECURSIVE SkipBackWhile(_, _, _)
SkipBackWhile(s, i, cls) ==
  IF i >= 1 /\ CharAt(s, i) \in cls THEN SkipBackWhile(s, i - 1, cls) ELSE i

\* String.prototype.trim.
Trim(s) ==
  LET first == SkipWhile(s, 1, Whitespace)
      last  == SkipBackWhile(s, Len(s), Whitespace)
  IN  IF first > last THEN "" ELSE SubSeq(s, first, last)

\* The literal w occurs in s at index i (exact comparison).
StartsWithAt(s, i, w) ==
  /\ i >= 1
  /\ i + Len(w) - 1 <= Len(s)
  /\ SubSeq(s, i, i + Len(w) - 1) = w

\* String.prototype.includes.
Includes(s, w) == \E i \in 1..(Len(s) - Len(w) + 1) : StartsWithAt(s, i, w)

\* The regex flag i: letters are compared without regard to case.  The
\* literals of the patterns are lower-case, so the subject is folded to lower
\* case (which keeps every index) and compared exactly.
FoldCase(s) == ToLowerCase(s)

\* Index of the first line terminator at or after i (Len(s) + 1 if none):
\* where a greedy dot-star started at i stops.
RECURSIVE LineEnd(_, _)
LineEnd(s, i) ==
  IF i <= Len(s) /\ CharAt(s, i) \notin LineTerminators
  THEN LineEnd(s, i + 1) ELSE i

(***************************************************************************)
(* TextQueryService.queryPatterns: the six ordered rules.  Each rule is a  *)
(* sequence of alternations separated by a greedy dot-star; rules 1-4 end  *)
(* in the team clause: a greedy dot-star, an optional group "for" or "of", *)
(* optional white space, an optional non-capturing "team" with white       *)
(* space, and an optional group of one or more letters, digits and white   *)
(* space.  All patterns carry the flag i and are not anchored.             *)
(***************************************************************************)
NumRules == 6

RuleParts(k) ==
  CASE k = 1 -> << <<"show", "display", "get", "what is", "what are", "view">>,
                   <<"velocity", "story points", "sprint">> >>
    [] k = 2 -> << <<"how many", "count", "number of", "total">>,
                   <<"bugs", "defects", "issues">> >>
    [] k = 3 -> << <<"average", "mean", "median">>,
                   <<"resolution", "fix", "close">>,
                   <<"time", "duration">> >>
    [] k = 4 -> << <<"completed", "done", "finished">>,
                   <<"tickets", "tasks", "items">> >>
    [] k = 5 -> << <<"team", "squad", "group">>,
                   <<"performance", "metrics", "stats", "statistics">> >>
    [] k = 6 -> << <<"q1", "q2", "q3", "q4", "quarter", "trend", "period">> >>

\* Rules whose pattern ends in the optional team clause.
RuleHasTeamClause(k) == k \in {1, 2, 3, 4}

\* Number of capture groups of rule k's pattern.
RuleGroupCount(k) ==
  Len(RuleParts(k)) + (IF RuleHasTeamClause(k) THEN 2 ELSE 0)

RuleHandler(k) ==
  CASE k = 1 -> "velocity"
    [] k = 2 -> "bugCount"
    [] k = 3 -> "resolutionTime"
    [] k = 4 -> "completedTickets"
    [] k = 5 -> "teamPerformance"
    [] k = 6 -> "quarterlyTrends"

\* parts[n..] can be matched with parts[n] starting exactly at index pos;
\* between two parts the dot-star skips any characters but line terminators.
\* (s is the case-folded subject.)
RECURSIVE CanMatch(_, _, _, _)
CanMatch(s, parts, n, pos) ==
  \E a \in 1..Len(parts[n]) :
    LET e == pos + Len(parts[n][a]) IN
    /\ StartsWithAt(s, pos, parts[n][a])
    /\ \/ n = Len(parts)
       \/ \E j \in e..LineEnd(s, e) : CanMatch(s, parts, n + 1, j)

\* Index where the (leftmost) match of rule k starts in s; 0 when the rule
\* does not match.  The team clause is wholly optional, so it never decides
\* whether the rule matches.
RuleMatchStart(k, s) ==
  LET starts == {i \in 1..Len(s) : CanMatch(FoldCase(s), RuleParts(k), 1, i)}
  IN  IF starts = {} THEN 0
      ELSE CHOOSE i \in starts : \A j \in starts : i <= j

RuleMatches(k, s) == RuleMatchStart(k, s) # 0

\* pattern.lastIndex after text.match(pattern), text being s and the
\* property holding before.  With the fault of a sticky pattern: the
\* property is set to the end of the match, or to 0 when there is none.
LastIndexAfterMatch_Sticky(k, s, before) ==
  IF RuleMatches(k, s) THEN Len(s) ELSE 0

\* pattern.lastIndex after text.match(pattern), text being s and the
\* property holding before.  Every pattern carries the flag i alone: the
\* match starts at index 0 and the property is written for global and
\* sticky patterns only.
LastIndexAfterMatch(k, s, before) == before

\* A capture group that did not participate in the match (undefined).
Undefined == [defined |-> FALSE, text |-> ""]
Captured(t) == [defined |-> TRUE, text |-> t]

\* The groups of the team clause for a match starting at index start.
\* The greedy dot-star before the clause runs to the end of the line, and since
\* every later item is optional the first attempt succeeds: the for/of
\* group is tried at the line end, white space and the word team are
\* consumed greedily, and the last group takes the longest run of letters,
\* digits and white space, if that run is not empty.
TeamClause(s, start) ==
  LET f     == FoldCase(s)
      k0    == LineEnd(s, start)
      forOf == IF StartsWithAt(f, k0, "for") THEN Captured(SubSeq(s, k0, k0 + 2))
               ELSE IF StartsWithAt(f, k0, "of") THEN Captured(SubSeq(s, k0, k0 + 1))
               ELSE Undefined
      k1    == k0 + Len(forOf.text)
      k2    == SkipWhile(s, k1, Whitespace)
      k3    == IF StartsWithAt(f, k2, "team")
               THEN SkipWhile(s, k2 + 4, Whitespace) ELSE k2
      k4    == SkipWhile(s, k3, TeamNameChars)
      name  == IF k4 > k3 THEN Captured(SubSeq(s, k3, k4 - 1)) ELSE Undefined
  IN  [forOf |-> forOf, name |-> name]

\* match[g] for the match of rule k on s (precondition: the rule matches).
\* Groups 1..Len(parts) are the keyword alternations; they are never
\* undefined, and only whether group 4 is one of them matters here.
MatchGroup(k, s, g) ==
  LET n  == Len(RuleParts(k))
      tc == TeamClause(s, RuleMatchStart(k, s))
  IN  IF g > RuleGroupCount(k) THEN Undefined
      ELSE IF g <= n THEN Captured(RuleParts(k)[g][1])
      ELSE IF g = n + 1 THEN tc.forOf
      ELSE tc.name

\* TeamNameFromGroup without the default: an undefined or blank group
\* gives the empty name.
TeamNameFromGroup_NoDefault(g) == IF g.defined THEN Trim(g.text) ELSE ""

\* g?.trim() || 'all' for a capture group g.
TeamNameFromGroup(g) ==
  IF g.defined /\ Trim(g.text) # "" THEN Trim(g.text) ELSE "all"

\* const teamName = match[4]?.trim() || 'all';
TeamNameOf(k, s) == TeamNameFromGroup(MatchGroup(k, s, 4))

\* FirstMatchingRule with the fault of a loop that does not stop at its first
\* match, so that the last matching rule decides.
FirstMatchingRule_Last(s) ==
  LET hits == {k \in 1..NumRules : RuleMatches(k, s)}
  IN  IF hits = {} THEN 0 ELSE CHOOSE k \in hits : \A j \in hits : k >= j

\* The rule the for-loop of processTextQuery stops at (0: no rule matches).
FirstMatchingRule(s) ==
  LET hits == {k \in 1..NumRules : RuleMatches(k, s)}
  IN  IF hits = {} THEN 0 ELSE CHOOSE k \in hits : \A j \in hits : k <= j

(***************************************************************************)
(* TextQueryService.analyzeQueryByKeywords: the keyword classifier.        *)
(***************************************************************************)
KeywordCategories ==
  << [category |-> "velocity",
      keywords |-> {"velocity", "story point", "sprint", "throughput", "capacity"}],
     [category |-> "bugs",
      keywords |-> {"bug", "defect", "error", "issue", "failure"}],
     [category |-> "resolution",
      keywords |-> {"resolution", "fix", "close", "time", "duration"}],
     [category |-> "trends",
      keywords |-> {"trend", "q1", "q2", "q3", "q4", "quarter", "period"}],
     [category |-> "performance",
      keywords |-> {"performance", "metric", "statistic", "kpi"}] >>

\* keywords.filter(kw => queryLower.includes(kw)).length
KeywordCount(c, queryLower) ==
  Cardinality({kw \in KeywordCategories[c].keywords : Includes(queryLower, kw)})

\* KeywordMatches with the fault of a filter that keeps the categories
\* without a hit (m.count >= 0).
KeywordMatches_NonNegative(queryLower) ==
  [c \in 1..Len(KeywordCategories) |->
     [category |-> KeywordCategories[c].category,
      count    |-> KeywordCount(c, queryLower)]]

\* Object.entries(...).map(...).filter(m => m.count > 0)
KeywordMatches(queryLower) ==
  LET all == [c \in 1..Len(KeywordCategories) |->
                [category |-> KeywordCategories[c].category,
                 count    |-> KeywordCount(c, queryLower)]]
      Pos(m) == m.count > 0
  IN  SelectSeq(all, Pos)

\* BetterMatch with the fault of a reduction that keeps its accumulator.
BetterMatch_KeepsFirst(prev, current) == prev

\* (prev, current) => (prev.count > current.count) ? prev : current
BetterMatch(prev, current) ==
  IF prev.count > current.count THEN prev ELSE current

\* matches.reduce(BetterMatch) without an initial value (matches not empty).
RECURSIVE ReduceMatches(_, _)
ReduceMatches(prev, rest) ==
  IF rest = << >> THEN prev
  ELSE ReduceMatches(BetterMatch(prev, Head(rest)), Tail(rest))

\* BestCategory with the fault of searching the text as received, without
\* lower-casing it.
BestCategory_CaseSensitive(query) ==
  LET matches == KeywordMatches(query)
  IN  IF Len(matches) > 0
      THEN ReduceMatches(Head(matches), Tail(matches)).category
      ELSE "none"

\* The category the classifier selects ("none" when every count is zero).
BestCategory(query) ==
  LET matches == KeywordMatches(ToLowerCase(query))
  IN  IF Len(matches) > 0
      THEN ReduceMatches(Head(matches), Tail(matches)).category
      ELSE "none"

\* CategoryHandler with the fault of a switch whose resolution case calls
\* the handler declared after the one meant.
CategoryHandler_WrongCase(category) ==
  CASE category = "velocity"    -> "velocity"
    [] category = "bugs"        -> "bugCount"
    [] category = "resolution"  -> "completedTickets"
    [] category = "trends"      -> "quarterlyTrends"
    [] category = "performance" -> "teamPerformance"
    [] OTHER                    -> "none"

\* The switch of analyzeQueryByKeywords.
CategoryHandler(category) ==
  CASE category = "velocity"    -> "velocity"
    [] category = "bugs"        -> "bugCount"
    [] category = "resolution"  -> "resolutionTime"
    [] category = "trends"      -> "quarterlyTrends"
    [] category = "performance" -> "teamPerformance"
    [] OTHER                    -> "none"

(***************************************************************************)
(* The store (schema.prisma) and the reads the handlers make of it.        *)
(* Timestamps are in hours.  A nullable column holds Null when not set.    *)
(***************************************************************************)
Null == -1
HoursPerDay == 24
QuarterDays == 90
SprintsTaken == 5
PercentScale == 100

\* new Date(): the time of the model's runs, 100 days after the epoch.
Now == 100 * HoursPerDay

NoTeam == [id |-> "none", name |-> ""]

Team(id, name) == [id |-> id, name |-> name]
Member(id, teamId) == [id |-> id, teamId |-> teamId]
Sprint(id, teamId, endDate) == [id |-> id, teamId |-> teamId, endDate |-> endDate]
Ticket(id, teamId, sprintId, type, status, storyPoints, createdAt, resolvedAt) ==
  [id |-> id, teamId |-> teamId, sprintId |-> sprintId, type |-> type,
   status |-> status, storyPoints |-> storyPoints,
   createdAt |-> createdAt, resolvedAt |-> resolvedAt]

\* A database before seeding.
EmptyStore == [teams |-> {}, members |-> {}, sprints |-> {}, tickets |-> {}]

\* A populated database: the three teams prisma/seed.ts creates, with a
\* small population of members, sprints two weeks apart and tickets of
\* mixed type and status.  The Frontend team has run six sprints and the
\* Backend team three.  The schema lets a team have no sprint and no
\* ticket (the DevOps team here), a ticket no sprint ("none"), no story
\* points and no resolution date; k4 was created before the last quarter.
SeededStore ==
  [teams   |-> {Team("t1", "Frontend Team"), Team("t2", "Backend Team"),
                Team("t3", "DevOps Team")},
   members |-> {Member("m1", "t1"), Member("m2", "t1"), Member("m3", "t2")},
   sprints |-> {Sprint("s1", "t1", 16 * HoursPerDay),
                Sprint("s2", "t1", 30 * HoursPerDay),
                Sprint("s3", "t1", 44 * HoursPerDay),
                Sprint("s4", "t1", 58 * HoursPerDay),
                Sprint("s5", "t1", 72 * HoursPerDay),
                Sprint("s6", "t1", 86 * HoursPerDay),
                Sprint("s7", "t2", 59 * HoursPerDay),
                Sprint("s8", "t2", 73 * HoursPerDay),
                Sprint("s9", "t2", 87 * HoursPerDay)},
   tickets |-> {Ticket("k1", "t1", "s1", "FEATURE", "DONE", 5,
                       12 * HoursPerDay, 15 * HoursPerDay),
                Ticket("k2", "t1", "s6", "BUG", "DONE", Null,
                       80 * HoursPerDay, 81 * HoursPerDay + 12),
                Ticket("k3", "t1", "s6", "TASK", "IN_PROGRESS", 3,
                       85 * HoursPerDay, Null),
                Ticket("k4", "t2", "s7", "BUG", "DONE", 8,
                       5 * HoursPerDay, 9 * HoursPerDay),
                Ticket("k5", "t2", "none", "BUG", "TODO", 2,
                       95 * HoursPerDay, Null),
                Ticket("k6", "t2", "s8", "FEATURE", "DONE", 2,
                       70 * HoursPerDay, Null),
                Ticket("k7", "t2", "s9", "TASK", "IN_REVIEW", 1,
                       84 * HoursPerDay, Null),
                Ticket("k8", "t1", "s5", "FEATURE", "DONE", 3,
                       66 * HoursPerDay, 70 * HoursPerDay + 8)}]

Stores == {EmptyStore, SeededStore}

\* A database after a busy quarter: the Backend team has 160 tickets
\* created 50 days ago, 23 of them of type BUG, and one BUG ticket created
\* before the last quarter; the Frontend team has 40 tickets created 20 days
\* ago, 7 of them of type BUG.
BusyStore ==
  [teams   |-> SeededStore.teams,
   members |-> SeededStore.members,
   sprints |-> {},
   tickets |->
     {Ticket("b" \o ToString(i), "t2", "none",
             IF i <= 23 THEN "BUG" ELSE "FEATURE", "TODO", 1,
             50 * HoursPerDay, Null) : i \in 1..160}
     \cup {Ticket("b0", "t2", "none", "BUG", "DONE", 1,
                  5 * HoursPerDay, 8 * HoursPerDay)}
     \cup {Ticket("f" \o ToString(i), "t1", "none",
                  IF i <= 7 THEN "BUG" ELSE "TASK", "TODO", Null,
                  80 * HoursPerDay, Null) : i \in 1..40}]

BugRateStores == {EmptyStore, SeededStore, BusyStore}

\* The databases of the model.
\* A database other clients write to while a query runs: the Backend team
\* with one FEATURE ticket created 20 days ago.
WriterStore ==
  [teams   |-> {Team("t2", "Backend Team")},
   members |-> {},
   sprints |-> {},
   tickets |-> {Ticket("w0", "t2", "none", "FEATURE", "TODO", 3,
                       80 * HoursPerDay, Null)}]

\* The tickets the other clients create: two of type BUG, created now.
WriterTickets ==
  {Ticket("w1", "t2", "none", "BUG", "TODO", 1, Now, Null),
   Ticket("w2", "t2", "none", "BUG", "TODO", 2, Now, Null)}

AllStores == Stores \cup BugRateStores \cup {WriterStore}

\* Math.round(a / b) for b > 0: the nearest integer, halves rounded up.
\* Used where the divisor is the length of a day, or a number of sprints
\* or of resolved tickets of the model's databases (at most 9): there the
\* double arithmetic of the code and the exact quotient round alike.
RoundDiv(a, b) == (2 * a + b) \div (2 * b)

(***************************************************************************)
(* JavaScript numbers are IEEE-754 doubles: every division and every       *)
(* multiplication is rounded to 53 significant bits, to the nearest with   *)
(* ties to the even significand.  A positive number is kept as the bits of *)
(* its significand, most significant first and without leading zeros, and  *)
(* a binary exponent: the number is the integer the bits spell times 2 to  *)
(* the exponent.  Zero has no bits.  (Exponents stay far from the limits   *)
(* of the format and no number is negative here.)                          *)
(***************************************************************************)
SignificandBits == 53

Float(bits, exp) == [bits |-> bits, exp |-> exp]

\* The integer a short sequence of bits spells.
RECURSIVE BitsToInt(_)
BitsToInt(bits) ==
  IF bits = << >> THEN 0
  ELSE 2 * BitsToInt(SubSeq(bits, 1, Len(bits) - 1)) + bits[Len(bits)]

\* The bits of a non-negative integer (none for 0).
RECURSIVE IntToBits(_)
IntToBits(n) == IF n = 0 THEN << >> ELSE Append(IntToBits(n \div 2), n % 2)

\* The spelling of n in exactly w bits (n below 2^w).
RECURSIVE FixedBits(_, _)
FixedBits(n, w) ==
  IF w = 0 THEN << >> ELSE Append(FixedBits(n \div 2, w - 1), n % 2)

\* The bits of bits[1..i] * mul + carry, computed from the last bits up,
\* eight bits at a time.
RECURSIVE MulAdd(_, _, _, _)
MulAdd(bits, i, mul, carry) ==
  IF i = 0 THEN IntToBits(carry)
  ELSE LET w   == IF i < 8 THEN i ELSE 8
           pow == 2 ^ w
           v   == BitsToInt(SubSeq(bits, i - w + 1, i)) * mul + carry
       IN  MulAdd(bits, i - w, mul, v \div pow) \o FixedBits(v % pow, w)

\* Rounding of the exact value (bits, exp) -- plus a non-zero part below the
\* last bit when sticky -- to a double: to the nearest, ties to even.
RoundToDouble(bits, exp, sticky) ==
  IF Len(bits) <= SignificandBits THEN Float(bits, exp)
  ELSE LET keep    == SubSeq(bits, 1, SignificandBits)
           dropped == Len(bits) - SignificandBits
           guard   == bits[SignificandBits + 1]
           below   == sticky \/ \E i \in (SignificandBits + 2)..Len(bits) : bits[i] = 1
           up      == guard = 1 /\ (below \/ keep[SignificandBits] = 1)
           kept    == IF up THEN MulAdd(keep, SignificandBits, 1, 1) ELSE keep
       IN  IF Len(kept) > SignificandBits
           THEN Float(SubSeq(kept, 1, SignificandBits), exp + dropped + 1)
           ELSE Float(kept, exp + dropped)

\* The binary expansion of rem / den below the bits found so far, eight
\* bits at a time, continued until more bits than a significand holds are
\* known or nothing remains; frac counts the fractional bits produced.
RECURSIVE DivideBits(_, _, _, _)
DivideBits(bits, rem, den, frac) ==
  IF rem = 0 \/ Len(bits) > SignificandBits
  THEN [bits |-> bits, exp |-> 0 - frac, sticky |-> rem # 0]
  ELSE LET next == FixedBits((256 * rem) \div den, 8)
       IN  DivideBits(IF bits = << >> THEN IntToBits(BitsToInt(next))
                      ELSE bits \o next,
                      (256 * rem) % den, den, frac + 8)

\* num / den for integers num >= 0 and 0 < den < 2^22.
FloatDivide(num, den) ==
  LET d == DivideBits(IntToBits(num \div den), num % den, den, 0)
  IN  RoundToDouble(d.bits, d.exp, d.sticky)

\* x * k for a double x and a small positive integer k.
FloatTimes(x, k) ==
  RoundToDouble(MulAdd(x.bits, Len(x.bits), k, 0), x.exp, FALSE)

\* Math.round(x) for a double x >= 0 below 2^31: the nearest integer, a
\* fraction of one half rounding up.
MathRound(x) ==
  LET len == Len(x.bits)
      k   == 0 - x.exp
  IN  IF len = 0 THEN 0
      ELSE IF k <= 0 THEN BitsToInt(x.bits \o [i \in 1..(0 - k) |-> 0])
      ELSE IF k > len THEN 0
      ELSE BitsToInt(SubSeq(x.bits, 1, len - k)) + x.bits[len - k + 1]

\* ticket.storyPoints || 0
StoryPointsOrZero(t) == IF t.storyPoints = Null THEN 0 ELSE t.storyPoints

\* tickets.reduce((sum, ticket) => sum + (ticket.storyPoints || 0), 0)
RECURSIVE SumStoryPoints(_)
SumStoryPoints(S) ==
  IF S = {} THEN 0
  ELSE LET x == CHOOSE y \in S : TRUE
       IN  StoryPointsOrZero(x) + SumStoryPoints(S \ {x})

\* Math.round(diff / (1000 * 60 * 60 * 24))
ResolutionDays(k) == RoundDiv(k.resolvedAt - k.createdAt, HoursPerDay)

\* resolutionTimes.reduce((sum, time) => sum + time, 0)
RECURSIVE SumResolutionDays(_)
SumResolutionDays(S) ==
  IF S = {} THEN 0
  ELSE LET x == CHOOSE y \in S : TRUE
       IN  ResolutionDays(x) + SumResolutionDays(S \ {x})

\* prisma.team.findFirst({ where: { name: { equals, mode: 'insensitive' } } })
\* may return any team whose name equals teamName up to letter case.
TeamsNamed(st, name) ==
  {t \in st.teams : ToLowerCase(t.name) = ToLowerCase(name)}

\* LatestSprints with the fault of the ascending order: the five sprints
\* that ended first.
LatestSprints_Earliest(S) ==
  LET n == IF Cardinality(S) < SprintsTaken THEN Cardinality(S) ELSE SprintsTaken
  IN  {T \in SUBSET S :
         /\ Cardinality(T) = n
         /\ \A a \in T : \A b \in S \ T : a.endDate <= b.endDate}

\* orderBy: { endDate: 'desc' }, take: 5 -- the possible results: the order
\* among sprints with the same endDate is the database's choice.
LatestSprints(S) ==
  LET n == IF Cardinality(S) < SprintsTaken THEN Cardinality(S) ELSE SprintsTaken
  IN  {T \in SUBSET S :
         /\ Cardinality(T) = n
         /\ \A a \in T : \A b \in S \ T : a.endDate >= b.endDate}

\* The sprints the velocity handler chooses from on the databases of the
\* model: all sprints, or those of one team.
SprintScopes ==
  UNION {{st.sprints} \cup {{sp \in st.sprints : sp.teamId = t.id} : t \in st.teams} :
           st \in AllStores}

\* LatestSprints tabulated over these.
LatestSprintsOf == [S \in SprintScopes |-> LatestSprints(S)]

\* include: { tickets: { where: { status: 'DONE' } } } over the sprints T.
DoneTicketsOfSprints(st, T) ==
  {k \in st.tickets : k.status = "DONE" /\ \E sp \in T : k.sprintId = sp.id}

\* prisma.ticket.count({ where: { teamId?, type?, createdAt: { gte } } })
CountTickets(st, teamId, type) ==
  Cardinality({k \in st.tickets :
                 /\ teamId = "none" \/ k.teamId = teamId
                 /\ type = "any" \/ k.type = type
                 /\ k.createdAt >= Now - QuarterDays * HoursPerDay})

\* ResolvedTickets with the fault of taking every DONE ticket.
ResolvedTickets_AnyDone(st) == {k \in st.tickets : k.status = "DONE"}

\* prisma.ticket.findMany({ where: { status: 'DONE', resolvedAt: { not: null } } })
ResolvedTickets(st) ==
  {k \in st.tickets : k.status = "DONE" /\ k.resolvedAt # Null}

\* CompletedTickets with the fault of leaving out the status filter.
CompletedTickets_All(st) == st.tickets

\* prisma.ticket.findMany({ where: { status: 'DONE' }, include: { team } })
CompletedTickets(st) == {k \in st.tickets : k.status = "DONE"}

TeamNameOfTicket(st, k) == (CHOOSE t \in st.teams : t.id = k.teamId).name

(***************************************************************************)
(* The envelopes { query, result, interpretation } the handlers build.     *)
(* A result is a record; NullResult stands for result: null.  Averages and *)
(* rates rounded to two decimals are kept in hundredths.                   *)
(***************************************************************************)
NullResult == [kind |-> "null"]

\* Envelope with the fault of echoing the normalised text.
Envelope_Normalized(query, result, interpretation) ==
  [query |-> Trim(ToLowerCase(query)), result |-> result,
   interpretation |-> interpretation]

\* interface TextQueryResult { query; result; interpretation }
Envelope(query, result, interpretation) ==
  [query |-> query, result |-> result, interpretation |-> interpretation]

\* The catch block of processTextQuery.
ProcessErrorEnvelope(query) ==
  Envelope(query, NullResult,
    "I encountered an error processing your request. Please try again or rephrase your question.")

\* The final return of analyzeQueryByKeywords.
GuidanceText ==
  "I didn't understand your query. Try questions like: " \o
  "'Show velocity for Frontend team', " \o
  "'How many bugs in Q2?', or " \o
  "'Average resolution time last month'"

GuidanceEnvelope(query) == Envelope(query, NullResult, GuidanceText)

\* The not-found return of handleVelocityQuery and handleBugCountQuery.
TeamNotFoundEnvelope(query, teamName) ==
  Envelope(query, NullResult,
    "Team \"" \o teamName \o "\" not found. Try one of our team names.")

\* ${teamName === 'all' ? 'across all teams' : `for ${team?.name}`}
ScopeText(teamName, team) ==
  IF teamName = "all" THEN "across all teams" ELSE "for " \o team.name

\* team: teamName === 'all' ? 'All Teams' : team?.name
ScopeLabel(teamName, team) ==
  IF teamName = "all" THEN "All Teams" ELSE team.name

\* VelocityEnvelope with the fault of treating an empty list of sprints as
\* missing data (result null).
VelocityEnvelope_NullWhenEmpty(st, query, teamName, team, T) ==
  LET totalVelocity == SumStoryPoints(DoneTicketsOfSprints(st, T))
      n == Cardinality(T)
  IN  IF n = 0
      THEN Envelope(query, NullResult, "No sprints found to calculate velocity.")
      ELSE Envelope(query,
             [kind |-> "velocity",
              team |-> ScopeLabel(teamName, team),
              averageVelocity100 |-> RoundDiv(totalVelocity * PercentScale, n),
              sprintsAnalyzed |-> n,
              timePeriod |-> "last 5 sprints"],
             "Average velocity " \o ScopeText(teamName, team) \o " is " \o
             ToString(RoundDiv(totalVelocity, n)) \o
             " story points per sprint (last 5 sprints).")

\* The success return of handleVelocityQuery over the fetched sprints T.
VelocityEnvelope(st, query, teamName, team, T) ==
  LET totalVelocity == SumStoryPoints(DoneTicketsOfSprints(st, T))
      n == Cardinality(T)
  IN  Envelope(query,
        [kind |-> "velocity",
         team |-> ScopeLabel(teamName, team),
         averageVelocity100 |->
           IF n > 0 THEN RoundDiv(totalVelocity * PercentScale, n) ELSE 0,
         sprintsAnalyzed |-> n,
         timePeriod |-> "last 5 sprints"],
        "Average velocity " \o ScopeText(teamName, team) \o " is " \o
        ToString(IF n > 0 THEN RoundDiv(totalVelocity, n) ELSE 0) \o
        " story points per sprint (last 5 sprints).")

\* The catch block of handleVelocityQuery.
VelocityFailureEnvelope(query) ==
  Envelope(query, NullResult,
    "Failed to retrieve velocity data. Please try again later.")

\* The catch block of handleQuarterlyTrendsQuery.  handleVelocityQuery
\* catches every failure itself, so its promise never rejects and this block
\* is never entered.
QuarterlyTrendsFailureEnvelope(query) ==
  Envelope(query, NullResult,
    "Couldn't retrieve quarterly trends. Please try again.")

\* QuarterlyTrendsEnvelope with the fault of dropping the payload.
QuarterlyTrendsEnvelope_DropsResult(result) ==
  Envelope(result.query, NullResult,
     "Showing Q1 velocity trends across all teams. " \o
     "Try being more specific like 'Q2 bugs for Frontend team'")

\* handleQuarterlyTrendsQuery: { ...result, interpretation: ... }
QuarterlyTrendsEnvelope(result) ==
  [result EXCEPT !.interpretation =
     "Showing Q1 velocity trends across all teams. " \o
     "Try being more specific like 'Q2 bugs for Frontend team'"]

\* const bugRate = totalTickets > 0 ? (bugTickets / totalTickets) * 100 : 0,
\* in double arithmetic.
BugRate(bugTickets, totalTickets) ==
  IF totalTickets > 0
  THEN FloatTimes(FloatDivide(bugTickets, totalTickets), PercentScale)
  ELSE Float(<< >>, 0)

\* The counts (bugTickets, totalTickets) handleBugCountQuery can obtain
\* from the databases of the model.
BugCountPairs ==
  UNION {{<<CountTickets(st, id, "BUG"), CountTickets(st, id, "any")>> :
            id \in {NoTeam.id} \cup {t.id : t \in st.teams}} : st \in AllStores}
  \cup {<<b, t>> : b \in 0..Cardinality(WriterTickets),
                   t \in 0..Cardinality(WriterStore.tickets \cup WriterTickets)}

\* Math.round(bugRate * 100) and Math.round(bugRate), tabulated over
\* these counts.
RoundedBugRateOf ==
  [pr \in BugCountPairs |->
     [hundredths |-> MathRound(FloatTimes(BugRate(pr[1], pr[2]), PercentScale)),
      percent    |-> MathRound(BugRate(pr[1], pr[2]))]]

\* The success return of handleBugCountQuery.  bugRate100 is the integer
\* Math.round(bugRate * 100), which the code then divides by 100.
BugCountEnvelope(query, teamName, team, totalTickets, bugTickets) ==
  Envelope(query,
    [kind |-> "bugCount",
     team |-> ScopeLabel(teamName, team),
     totalTickets |-> totalTickets,
     bugTickets |-> bugTickets,
     bugRate100 |-> RoundedBugRateOf[<<bugTickets, totalTickets>>].hundredths,
     timePeriod |-> "last quarter"],
    "Found " \o ToString(bugTickets) \o " bugs out of " \o
    ToString(totalTickets) \o " total tickets " \o
    ScopeText(teamName, team) \o " in the last quarter (" \o
    ToString(RoundedBugRateOf[<<bugTickets, totalTickets>>].percent) \o
    "% bug rate).")

\* The catch block of handleBugCountQuery.
BugCountFailureEnvelope(query) ==
  Envelope(query, NullResult,
    "Failed to retrieve bug statistics. Please try again later.")

\* The returns of handleResolutionTimeQuery over the fetched tickets R.
ResolutionTimeEnvelope(query, R) ==
  LET n   == Cardinality(R)
      sum == SumResolutionDays(R)
  IN  IF n = 0
      THEN Envelope(query, NullResult,
             "No resolved tickets found to calculate resolution time.")
      ELSE Envelope(query,
             [kind |-> "resolutionTime",
              averageResolutionTime100 |-> RoundDiv(sum * PercentScale, n),
              ticketsAnalyzed |-> n,
              unit |-> "days"],
             "Average resolution time is " \o ToString(RoundDiv(sum, n)) \o
             " days based on " \o ToString(n) \o " resolved tickets.")

\* The return of handleCompletedTicketsQuery over the fetched tickets D.
CompletedTicketsEnvelope(st, query, D) ==
  LET names == {TeamNameOfTicket(st, k) : k \in D}
      Of(nm) == {k \in D : TeamNameOfTicket(st, k) = nm}
      teamStats == [nm \in names |->
                      [completed   |-> Cardinality(Of(nm)),
                       storyPoints |-> SumStoryPoints(Of(nm))]]
  IN  Envelope(query,
        [kind |-> "completedTickets",
         totalCompleted |-> Cardinality(D),
         byTeam |-> teamStats],
        "Found " \o ToString(Cardinality(D)) \o " completed tickets across " \o
        ToString(Cardinality(names)) \o " team(s).")

\* One element of the array handleTeamPerformanceQuery returns.
TeamPerformanceRow(st, t) ==
  LET tickets          == {k \in st.tickets : k.teamId = t.id}
      completedTickets == {k \in tickets : k.status = "DONE"}
      bugTickets       == {k \in tickets : k.type = "BUG"}
      n                == Cardinality(tickets)
  IN  [teamName         |-> t.name,
       memberCount      |-> Cardinality({m \in st.members : m.teamId = t.id}),
       totalTickets     |-> n,
       completedTickets |-> Cardinality(completedTickets),
       completionRate   |->
         IF n > 0
         THEN MathRound(FloatTimes(FloatDivide(Cardinality(completedTickets), n),
                                   PercentScale))
         ELSE 0,
       bugCount         |-> Cardinality(bugTickets),
       bugRate          |->
         IF n > 0
         THEN MathRound(FloatTimes(FloatDivide(Cardinality(bugTickets), n),
                                   PercentScale))
         ELSE 0]

\* The array handleTeamPerformanceQuery builds, tabulated over the
\* databases of the model and kept as the set of its elements (findMany
\* states no order).
TeamPerformanceRowsOf ==
  [st \in AllStores |-> {TeamPerformanceRow(st, t) : t \in st.teams}]

\* TeamPerformanceEnvelope with the fault of leaving out the teams that
\* have no ticket.
TeamPerformanceEnvelope_SkipsIdleTeams(st, query) ==
  Envelope(query,
    [kind |-> "teamPerformance",
     rows |-> {TeamPerformanceRow(st, t) :
                 t \in {u \in st.teams : \E k \in st.tickets : k.teamId = u.id}}],
    "Performance overview for " \o ToString(Cardinality(st.teams)) \o
    " team(s) showing completion rates, bug rates, and team sizes.")

\* The return of handleTeamPerformanceQuery.
TeamPerformanceEnvelope(st, query) ==
  Envelope(query,
    [kind |-> "teamPerformance",
     rows |-> TeamPerformanceRowsOf[st]],
    "Performance overview for " \o ToString(Cardinality(st.teams)) \o
    " team(s) showing completion rates, bug rates, and team sizes.")

(***************************************************************************)
(* The state machine: NumCalls concurrent invocations of processTextQuery  *)
(* on one TextQueryService, interleaved at the points where a handler      *)
(* awaits the store.  Every store call either answers or fails.            *)
(***************************************************************************)
NumCalls == 2
Calls == 1..NumCalls

\* The texts callers send.
Queries ==
  { "Show Q1 velocity for Frontend Team",
    "show velocity\nfrontend team",
    "  SHOW VELOCITY\nFrontend Team ",
    "show velocity\nnosuch",
    "how many bugs for backend team",
    "count bugs\nBackend Team",
    "average resolution time",
    "completed tickets\nnosuch",
    "team performance stats",
    "quarterly trend",
    "velocity bug",
    "Velocity BUG ",
    "resolution time",
    "sprint capacity bug",
    "kpi",
    "xyz random gibberish" }

\* Texts that reach every handler, naming each of the three teams, a team
\* in a text for a handler without a team argument, and no team.
HandlerQueries ==
  { "show velocity\nfrontend team",
    "show velocity\nbackend team",
    "show velocity\ndevops team",
    "Show Q1 velocity for Frontend Team",
    "squad metrics\nbackend team",
    "period\nbackend team",
    "bug for Backend Team",
    "resolution time",
    "completed tickets\nnosuch",
    "kpi",
    "sprint capacity bug",
    "BUG Fix Time",
    "bug kpi metric",
    "  Hello there  " }

NoEnvelope == Envelope("", NullResult, "")
NoCounts == [total |-> Null, bug |-> Null]
NoDispatch == [rule |-> 0, path |-> "none", handler |-> "none", teamName |-> "all"]

\* The Dashboard component as constructed, before its first effect: the
\* initial filters and state of useState, no load started, and the effect
\* that calls loadDashboardData due.
InitialFilters == [dateRange |-> "3months", team |-> "all", project |-> ""]

NoMetricData == [filters |-> InitialFilters, mock |-> FALSE, empty |-> TRUE]

InitialDashboard ==
  [filters |-> InitialFilters,
   effectDue |-> TRUE,
   loads |-> << >>,
   state |-> [velocityData |-> NoMetricData, bugRateData |-> NoMetricData,
              resolutionData |-> NoMetricData, isLoading |-> TRUE, error |-> FALSE]]

\* ApiClient.processTextQuery has not returned: its promise is pending.
NoReturn == [state |-> "pending", failed |-> FALSE, value |-> NoEnvelope]

\* An HTTP exchange of the metrics router that has not begun: no request
\* received, the service not called, no response sent.
NoRequest ==
  [stage |-> "none", route |-> "", team |-> Undefined, sprintId |-> Undefined,
   days |-> Undefined, query |-> Undefined, called |-> FALSE, responses |-> << >>]

Init ==
  /\ store \in Stores
  /\ pc = [p \in Calls |-> "idle"]
  /\ received = [p \in Calls |-> ""]
  /\ dispatch = [p \in Calls |-> NoDispatch]
  /\ foundTeam = [p \in Calls |-> NoTeam]
  /\ counts = [p \in Calls |-> NoCounts]
  /\ storeCalls = [p \in Calls |-> << >>]
  /\ dispatched = [p \in Calls |-> << >>]
  /\ outcome = [p \in Calls |-> "pending"]
  /\ envelope = [p \in Calls |-> NoEnvelope]
  /\ lastIndex = [k \in 1..NumRules |-> 0]
  /\ requests = [p \in Calls |-> NoRequest]
  /\ returned = [p \in Calls |-> NoReturn]
  /\ dashboard = InitialDashboard

\* What a handler's promise settles with.
Returned(env) == [threw |-> FALSE, env |-> env]
Thrown == [threw |-> TRUE, env |-> NoEnvelope]

\* analyzeQueryByKeywords up to its switch: the handler it calls.
AnalyzeQueryByKeywords(q) == CategoryHandler(BestCategory(q))

\* The first await of handler h called with team argument tn.
HandlerEntry(h, tn) ==
  CASE h = "velocity"         -> IF tn = "all" THEN "velFindSprints" ELSE "velFindTeam"
    [] h = "quarterlyTrends"  -> "velFindSprints"
    [] h = "bugCount"         -> IF tn = "all" THEN "bugCounts" ELSE "bugFindTeam"
    [] h = "resolutionTime"   -> "resFindMany"
    [] h = "completedTickets" -> "compFindMany"
    [] h = "teamPerformance"  -> "perfFindMany"

\* Settle with the fault of keeping the result in a field of the service
\* that all invocations share.
Settle_SharedResult(p, r) ==
  /\ pc' = [pc EXCEPT ![p] = "done"]
  /\ outcome' = [outcome EXCEPT ![p] =
       IF r.threw /\ dispatch[p].path # "pattern" THEN "rejected" ELSE "resolved"]
  /\ envelope' = [c \in Calls |->
       IF ~r.threw THEN r.env
       ELSE IF dispatch[p].path = "pattern" THEN ProcessErrorEnvelope(received[p])
       ELSE NoEnvelope]

\* How the promise of processTextQuery settles once the handler's promise
\* has settled with r.  On the pattern path the handler is awaited inside
\* the try block, so a rejection is caught; analyzeQueryByKeywords returns
\* the handler's promise, which processTextQuery returns without awaiting
\* it, so a rejection passes the catch block by.  A handler called by
\* itself settles its own promise.
Settle(p, r) ==
  /\ pc' = [pc EXCEPT ![p] = "done"]
  /\ outcome' = [outcome EXCEPT ![p] =
       IF r.threw /\ dispatch[p].path # "pattern" THEN "rejected" ELSE "resolved"]
  /\ envelope' = [envelope EXCEPT ![p] =
       IF ~r.threw THEN r.env
       ELSE IF dispatch[p].path = "pattern" THEN ProcessErrorEnvelope(received[p])
       ELSE NoEnvelope]

LogCall(p, op, scope, ok) ==
  storeCalls' = [storeCalls EXCEPT ![p] =
                   Append(@, [op |-> op, scope |-> scope, type |-> "any", ok |-> ok])]

\* The same for prisma.ticket.count, whose where clause may carry a type.
LogCount(p, scope, type, ok) ==
  storeCalls' = [storeCalls EXCEPT ![p] =
                   Append(@, [op |-> "ticket.count", scope |-> scope,
                              type |-> type, ok |-> ok])]

\* Dispatch with the fault of consulting the keyword classifier before the
\* rules.
Dispatch_KeywordsFirst(q) ==
  LET normalizedQuery == Trim(ToLowerCase(q))
      k == FirstMatchingRule(normalizedQuery)
      h == AnalyzeQueryByKeywords(q)
  IN  IF h # "none" \/ k = 0
      THEN [rule |-> 0, path |-> "keyword", handler |-> h, teamName |-> "all"]
      ELSE [rule |-> k, path |-> "pattern", handler |-> RuleHandler(k),
            teamName |-> TeamNameOf(k, normalizedQuery)]

\* processTextQuery up to the call of the handler: normalise, try the
\* rules in order and take the team from group 4 of the first match, else
\* classify by keywords (team 'all').
Dispatch(q) ==
  LET normalizedQuery == Trim(ToLowerCase(q))
      k == FirstMatchingRule(normalizedQuery)
  IN  IF k # 0
      THEN [rule |-> k, path |-> "pattern", handler |-> RuleHandler(k),
            teamName |-> TeamNameOf(k, normalizedQuery)]
      ELSE [rule |-> 0, path |-> "keyword",
            handler |-> AnalyzeQueryByKeywords(q), teamName |-> "all"]

\* Questions for the resolution-time and completed-tickets handlers that
\* name no team, an existing team and a team that does not exist.
TeamArgumentQueries ==
  { "average resolution time",
    "average resolution time\nbackend team",
    "mean fix time\nnosuch",
    "completed tickets",
    "completed tickets\nfrontend team",
    "completed tickets\nnosuch" }

\* The texts of the model.
AllQueries == Queries \cup HandlerQueries \cup TeamArgumentQueries

\* Dispatch tabulated over the texts of the model.
DispatchOf == [q \in AllQueries |-> Dispatch(q)]

\* processTextQuery up to the first await: the rules are tried in order up
\* to the first that matches, then dispatch and entry into the handler.
ProcessTextQuery(p, q) ==
  /\ pc[p] = "idle"
  /\ received' = [received EXCEPT ![p] = q]
  /\ dispatch' = [dispatch EXCEPT ![p] = DispatchOf[q]]
  /\ dispatched' = [dispatched EXCEPT ![p] =
        IF dispatch'[p].handler = "none" THEN << >> ELSE <<dispatch'[p].handler>>]
  /\ IF dispatch'[p].handler = "none"
     THEN /\ pc' = [pc EXCEPT ![p] = "done"]
          /\ outcome' = [outcome EXCEPT ![p] = "resolved"]
          /\ envelope' = [envelope EXCEPT ![p] = GuidanceEnvelope(q)]
     ELSE /\ pc' = [pc EXCEPT ![p] =
                     HandlerEntry(dispatch'[p].handler, dispatch'[p].teamName)]
          /\ UNCHANGED <<outcome, envelope>>
  /\ lastIndex' = [k \in 1..NumRules |->
        IF dispatch'[p].rule = 0 \/ k <= dispatch'[p].rule
        THEN LastIndexAfterMatch(k, Trim(ToLowerCase(q)), lastIndex[k])
        ELSE lastIndex[k]]
  /\ UNCHANGED <<store, foundTeam, counts, storeCalls, requests, returned, dashboard>>

\* handleQuarterlyTrendsQuery awaits handleVelocityQuery(query, 'all') and
\* replaces the interpretation of whatever it resolved with.
ThroughTrends(p, env) ==
  IF dispatch[p].handler = "quarterlyTrends" THEN QuarterlyTrendsEnvelope(env) ELSE env

\* handleVelocityQuery, teamName # 'all': team.findFirst with the team's
\* five latest sprints included, then the rest of the handler.
HandleVelocityQuery_FindTeam(p) ==
  /\ pc[p] = "velFindTeam"
  /\ \E ok \in BOOLEAN :
       /\ LogCall(p, "team.findFirst", dispatch[p].teamName, ok)
       /\ IF ~ok
          THEN /\ Settle(p, Returned(VelocityFailureEnvelope(received[p])))
               /\ UNCHANGED foundTeam
          ELSE IF TeamsNamed(store, dispatch[p].teamName) = {}
          THEN /\ Settle(p, Returned(TeamNotFoundEnvelope(received[p], dispatch[p].teamName)))
               /\ UNCHANGED foundTeam
          ELSE \E t \in TeamsNamed(store, dispatch[p].teamName) :
               \E T \in LatestSprintsOf[{sp \in store.sprints : sp.teamId = t.id}] :
                 /\ foundTeam' = [foundTeam EXCEPT ![p] = t]
                 /\ Settle(p, Returned(
                      VelocityEnvelope(store, received[p], dispatch[p].teamName, t, T)))
  /\ UNCHANGED <<store, received, dispatch, counts, dispatched, lastIndex, requests, returned, dashboard>>

\* handleVelocityQuery, teamName = 'all' (also under the quarterly-trends
\* handler): sprint.findMany, then the rest of the handler.
HandleVelocityQuery_FindSprints(p) ==
  /\ pc[p] = "velFindSprints"
  /\ \E ok \in BOOLEAN :
       /\ LogCall(p, "sprint.findMany", "all", ok)
       /\ IF ~ok
          THEN Settle(p, Returned(ThroughTrends(p, VelocityFailureEnvelope(received[p]))))
          ELSE \E T \in LatestSprintsOf[store.sprints] :
                 Settle(p, Returned(ThroughTrends(p,
                   VelocityEnvelope(store, received[p], "all", NoTeam, T))))
  /\ UNCHANGED <<store, received, dispatch, foundTeam, counts, dispatched, lastIndex, requests, returned, dashboard>>

\* handleBugCountQuery, teamName # 'all': team.findFirst.
HandleBugCountQuery_FindTeam(p) ==
  /\ pc[p] = "bugFindTeam"
  /\ \E ok \in BOOLEAN :
       /\ LogCall(p, "team.findFirst", dispatch[p].teamName, ok)
       /\ IF ~ok
          THEN /\ Settle(p, Returned(BugCountFailureEnvelope(received[p])))
               /\ UNCHANGED foundTeam
          ELSE IF TeamsNamed(store, dispatch[p].teamName) = {}
          THEN /\ Settle(p, Returned(TeamNotFoundEnvelope(received[p], dispatch[p].teamName)))
               /\ UNCHANGED foundTeam
          ELSE \E t \in TeamsNamed(store, dispatch[p].teamName) :
                 /\ foundTeam' = [foundTeam EXCEPT ![p] = t]
                 /\ pc' = [pc EXCEPT ![p] = "bugCounts"]
                 /\ UNCHANGED <<outcome, envelope>>
  /\ UNCHANGED <<store, received, dispatch, counts, dispatched, lastIndex, requests, returned, dashboard>>

\* ...(team && { teamId: team.id })
TeamFilter(p) == foundTeam[p].id

\* HandleBugCountQuery_Count with the fault of destructuring the two counts
\* in the order of their arrival: the count that answers first is taken
\* for totalTickets.
HandleBugCountQuery_Count_ByArrival(p, which) ==
  /\ pc[p] = "bugCounts"
  /\ \A i \in 1..Len(storeCalls[p]) :
       storeCalls[p][i].op = "ticket.count" =>
         storeCalls[p][i].type # (IF which = "bug" THEN "BUG" ELSE "any")
  /\ \E ok \in BOOLEAN :
       /\ LogCount(p, foundTeam[p].id, IF which = "bug" THEN "BUG" ELSE "any", ok)
       /\ IF ~ok
          THEN /\ Settle(p, Returned(BugCountFailureEnvelope(received[p])))
               /\ UNCHANGED counts
          ELSE LET n    == CountTickets(store, foundTeam[p].id,
                                        IF which = "bug" THEN "BUG" ELSE "any")
                   slot == IF counts[p].total = Null THEN "total" ELSE "bug"
                   got  == [counts[p] EXCEPT ![slot] = n]
               IN  /\ counts' = [counts EXCEPT ![p] = got]
                   /\ IF got.total # Null /\ got.bug # Null
                      THEN Settle(p, Returned(
                             BugCountEnvelope(received[p], dispatch[p].teamName, foundTeam[p],
                                              got.total, got.bug)))
                      ELSE UNCHANGED <<pc, outcome, envelope>>
  /\ UNCHANGED <<store, received, dispatch, foundTeam, dispatched, lastIndex, requests, returned, dashboard>>

\* The type the where clause of a count asks for: 'BUG' in the second
\* count, none in the first.
CountedType(which) == IF which = "bug" THEN "BUG" ELSE "any"

\* handleBugCountQuery: one of the two counts of Promise.all answers or
\* fails.  which = "total" is the count of all tickets, "bug" the count of
\* tickets of type BUG.  The first failure rejects Promise.all and the
\* catch block returns; the second answer completes the payload.
HandleBugCountQuery_Count(p, which) ==
  /\ pc[p] = "bugCounts"
  /\ counts[p][which] = Null
  /\ \E ok \in BOOLEAN :
       /\ LogCount(p, TeamFilter(p), CountedType(which), ok)
       /\ IF ~ok
          THEN /\ Settle(p, Returned(BugCountFailureEnvelope(received[p])))
               /\ UNCHANGED counts
          ELSE LET n   == CountTickets(store, TeamFilter(p), CountedType(which))
                   got == [counts[p] EXCEPT ![which] = n]
               IN  /\ counts' = [counts EXCEPT ![p] = got]
                   /\ IF got.total # Null /\ got.bug # Null
                      THEN Settle(p, Returned(
                             BugCountEnvelope(received[p], dispatch[p].teamName, foundTeam[p],
                                              got.total, got.bug)))
                      ELSE UNCHANGED <<pc, outcome, envelope>>
  /\ UNCHANGED <<store, received, dispatch, foundTeam, dispatched, lastIndex, requests, returned, dashboard>>

\* handleResolutionTimeQuery: ticket.findMany, then the rest of the handler.
\* The handler has no try block: a failing store call rejects its promise.
HandleResolutionTimeQuery(p) ==
  /\ pc[p] = "resFindMany"
  /\ \E ok \in BOOLEAN :
       /\ LogCall(p, "ticket.findMany", "all", ok)
       /\ IF ~ok
          THEN Settle(p, Thrown)
          ELSE Settle(p, Returned(
                 ResolutionTimeEnvelope(received[p], ResolvedTickets(store))))
  /\ UNCHANGED <<store, received, dispatch, foundTeam, counts, dispatched, lastIndex, requests, returned, dashboard>>

\* HandleCompletedTicketsQuery with the fault of keeping only the tickets
\* of the team asked for.
HandleCompletedTicketsQuery_OfTeam(p) ==
  /\ pc[p] = "compFindMany"
  /\ \E ok \in BOOLEAN :
       /\ LogCall(p, "ticket.findMany", "all", ok)
       /\ IF ~ok
          THEN Settle(p, Thrown)
          ELSE Settle(p, Returned(
                 CompletedTicketsEnvelope(store, received[p],
                   {k \in CompletedTickets(store) :
                      dispatch[p].teamName # "all"
                        => \E t \in TeamsNamed(store, dispatch[p].teamName) :
                             t.id = k.teamId})))
  /\ UNCHANGED <<store, received, dispatch, foundTeam, counts, dispatched, lastIndex, requests, returned, dashboard>>

\* handleCompletedTicketsQuery: ticket.findMany, then the rest (no try block).
HandleCompletedTicketsQuery(p) ==
  /\ pc[p] = "compFindMany"
  /\ \E ok \in BOOLEAN :
       /\ LogCall(p, "ticket.findMany", "all", ok)
       /\ IF ~ok
          THEN Settle(p, Thrown)
          ELSE Settle(p, Returned(
                 CompletedTicketsEnvelope(store, received[p], CompletedTickets(store))))
  /\ UNCHANGED <<store, received, dispatch, foundTeam, counts, dispatched, lastIndex, requests, returned, dashboard>>

\* handleTeamPerformanceQuery: team.findMany, then the rest (no try block).
HandleTeamPerformanceQuery(p) ==
  /\ pc[p] = "perfFindMany"
  /\ \E ok \in BOOLEAN :
       /\ LogCall(p, "team.findMany", "all", ok)
       /\ IF ~ok
          THEN Settle(p, Thrown)
          ELSE Settle(p, Returned(TeamPerformanceEnvelope(store, received[p])))
  /\ UNCHANGED <<store, received, dispatch, foundTeam, counts, dispatched, lastIndex, requests, returned, dashboard>>

Next ==
  \E p \in Calls :
    \/ \E q \in Queries : ProcessTextQuery(p, q)
    \/ HandleVelocityQuery_FindTeam(p)
    \/ HandleVelocityQuery_FindSprints(p)
    \/ HandleBugCountQuery_FindTeam(p)
    \/ \E which \in {"total", "bug"} : HandleBugCountQuery_Count(p, which)
    \/ HandleResolutionTimeQuery(p)
    \/ HandleCompletedTicketsQuery(p)
    \/ HandleTeamPerformanceQuery(p)

Spec == Init /\ [][Next]_vars

(***************************************************************************)
(* Every handler asked with and without a team.  The bug-count handler is  *)
(* asked for all teams here; its team lookup is exercised by the other     *)
(* specifications.                                                         *)
(***************************************************************************)
HandlerNext ==
  \E p \in Calls :
    \/ \E q \in HandlerQueries : ProcessTextQuery(p, q)
    \/ HandleVelocityQuery_FindTeam(p)
    \/ HandleVelocityQuery_FindSprints(p)
    \/ \E which \in {"total", "bug"} : HandleBugCountQuery_Count(p, which)
    \/ HandleResolutionTimeQuery(p)
    \/ HandleCompletedTicketsQuery(p)
    \/ HandleTeamPerformanceQuery(p)

HandlerSpec == Init /\ [][HandlerNext]_vars

(***************************************************************************)
(* The bug-count questions alone, asked of databases that include the busy *)
(* quarter.                                                                *)
(***************************************************************************)
BugCountQueries == {q \in Queries : DispatchOf[q].handler = "bugCount"}

BugRateInit ==
  /\ store \in BugRateStores
  /\ pc = [p \in Calls |-> "idle"]
  /\ received = [p \in Calls |-> ""]
  /\ dispatch = [p \in Calls |-> NoDispatch]
  /\ foundTeam = [p \in Calls |-> NoTeam]
  /\ counts = [p \in Calls |-> NoCounts]
  /\ storeCalls = [p \in Calls |-> << >>]
  /\ dispatched = [p \in Calls |-> << >>]
  /\ outcome = [p \in Calls |-> "pending"]
  /\ envelope = [p \in Calls |-> NoEnvelope]
  /\ lastIndex = [k \in 1..NumRules |-> 0]
  /\ requests = [p \in Calls |-> NoRequest]
  /\ returned = [p \in Calls |-> NoReturn]
  /\ dashboard = InitialDashboard

\* Another client of the database creates a ticket (as the seed script does
\* with prisma.ticket.create); the interpreter is not involved.
InsertTicket(k) ==
  /\ k \notin store.tickets
  /\ store' = [store EXCEPT !.tickets = @ \cup {k}]
  /\ UNCHANGED <<pc, received, dispatch, foundTeam, counts, storeCalls,
                 dispatched, outcome, envelope, lastIndex, requests, returned, dashboard>>

\* Another client of the database deletes a row of the table tickets.
DeleteTicket(k) ==
  /\ k \in store.tickets
  /\ store' = [store EXCEPT !.tickets = @ \ {k}]
  /\ UNCHANGED <<pc, received, dispatch, foundTeam, counts, storeCalls,
                 dispatched, outcome, envelope, lastIndex, requests, returned, dashboard>>

\* The bug-count handler on a database that other clients write to.
WriterInit ==
  /\ store = WriterStore
  /\ pc = [p \in Calls |-> "idle"]
  /\ received = [p \in Calls |-> ""]
  /\ dispatch = [p \in Calls |-> NoDispatch]
  /\ foundTeam = [p \in Calls |-> NoTeam]
  /\ counts = [p \in Calls |-> NoCounts]
  /\ storeCalls = [p \in Calls |-> << >>]
  /\ dispatched = [p \in Calls |-> << >>]
  /\ outcome = [p \in Calls |-> "pending"]
  /\ envelope = [p \in Calls |-> NoEnvelope]
  /\ lastIndex = [k \in 1..NumRules |-> 0]
  /\ requests = [p \in Calls |-> NoRequest]
  /\ returned = [p \in Calls |-> NoReturn]
  /\ dashboard = InitialDashboard

WriterNext ==
  \/ \E p \in Calls :
       \/ \E q \in BugCountQueries : ProcessTextQuery(p, q)
       \/ HandleBugCountQuery_FindTeam(p)
       \/ \E which \in {"total", "bug"} : HandleBugCountQuery_Count(p, which)
  \/ \E k \in WriterTickets : InsertTicket(k)
  \/ \E k \in WriterStore.tickets \cup WriterTickets : DeleteTicket(k)

WriterSpec == WriterInit /\ [][WriterNext]_vars

BugRateNext ==
  \E p \in Calls :
    \/ \E q \in BugCountQueries : ProcessTextQuery(p, q)
    \/ HandleBugCountQuery_FindTeam(p)
    \/ \E which \in {"total", "bug"} : HandleBugCountQuery_Count(p, which)

BugRateSpec == BugRateInit /\ [][BugRateNext]_vars

(***************************************************************************)
(* The resolution-time and completed-tickets questions alone, with and     *)
(* without a team.                                                         *)
(***************************************************************************)
\* The second argument a handler can be called with.
TeamArguments == {"all", "backend team", "Frontend Team", "nosuch"}

\* handleResolutionTimeQuery(q, tn) or handleCompletedTicketsQuery(q, tn)
\* called by itself, up to its first await: the promise of the call is the
\* handler's own.
CallHandler(p, h, q, tn) ==
  /\ pc[p] = "idle"
  /\ h \in {"resolutionTime", "completedTickets"}
  /\ received' = [received EXCEPT ![p] = q]
  /\ dispatch' = [dispatch EXCEPT ![p] =
        [rule |-> 0, path |-> "direct", handler |-> h, teamName |-> tn]]
  /\ dispatched' = [dispatched EXCEPT ![p] = <<h>>]
  /\ pc' = [pc EXCEPT ![p] = HandlerEntry(h, tn)]
  /\ UNCHANGED <<store, foundTeam, counts, storeCalls, outcome, envelope, lastIndex, requests, returned, dashboard>>

TeamArgumentNext ==
  \E p \in Calls :
    \/ \E q \in TeamArgumentQueries : ProcessTextQuery(p, q)
    \/ \E h \in {"resolutionTime", "completedTickets"}, tn \in TeamArguments :
         \E q \in {"average resolution time", "completed tickets"} :
           CallHandler(p, h, q, tn)
    \/ HandleResolutionTimeQuery(p)
    \/ HandleCompletedTicketsQuery(p)

TeamArgumentSpec == Init /\ [][TeamArgumentNext]_vars

(***************************************************************************)
(* Properties.  Tables over the texts of the model, used by the            *)
(* properties below.                                                       *)
(***************************************************************************)

\* The text the rules are tried on.
NormalizedOf == [q \in AllQueries |-> Trim(ToLowerCase(q))]

\* The rules whose pattern matches the normalised text.
MatchingRulesOf ==
  [q \in AllQueries |-> {k \in 1..NumRules : RuleMatches(k, NormalizedOf[q])}]

\* The number of keywords of each category the lower-cased text contains.
KeywordCountsOf ==
  [q \in AllQueries |->
     [c \in 1..Len(KeywordCategories) |-> KeywordCount(c, ToLowerCase(q))]]

\* The handler the keyword classifier would select for the text.
ClassifierHandlerOf == [q \in AllQueries |-> AnalyzeQueryByKeywords(q)]

Started(p) == dispatch[p].path # "none"
Done(p) == pc[p] = "done"
FailedCalls(p) == {i \in 1..Len(storeCalls[p]) : ~storeCalls[p][i].ok}

\* Index of the last occurrence of w in s (0 when there is none).
LastIndexOf(s, w) ==
  LET hits == {i \in 1..Len(s) : StartsWithAt(s, i, w)}
  IN  IF hits = {} THEN 0 ELSE CHOOSE i \in hits : \A j \in hits : j <= i

\* The name of a trailing team clause as a reader takes it: the text after
\* the last " for " or " of ", without a leading word "team", trimmed
\* ("" when the text has no such clause).
TrailingTeamName(s) ==
  LET f    == LastIndexOf(s, " for ")
      o    == LastIndexOf(s, " of ")
      at   == IF f > o THEN f + 5 ELSE IF o > 0 THEN o + 4 ELSE 0
      rest == IF at = 0 THEN "" ELSE Trim(SubSeq(s, at, Len(s)))
  IN  IF StartsWithAt(rest, 1, "team ")
      THEN Trim(SubSeq(rest, 6, Len(rest))) ELSE rest

TrailingTeamNameOf == [q \in AllQueries |-> TrailingTeamName(NormalizedOf[q])]

\* The first category, in declaration order, among those with the highest
\* keyword count (0 when no category has a hit).
FirstBestCategoryOf ==
  [q \in AllQueries |->
     LET n    == KeywordCountsOf[q]
         best == {c \in DOMAIN n : n[c] > 0 /\ \A d \in DOMAIN n : n[d] <= n[c]}
     IN  IF best = {} THEN 0 ELSE CHOOSE c \in best : \A d \in best : c <= d]

\* The interpretations that report a failure.
FailureInterpretations ==
  { VelocityFailureEnvelope("").interpretation,
    BugCountFailureEnvelope("").interpretation,
    QuarterlyTrendsFailureEnvelope("").interpretation,
    ProcessErrorEnvelope("").interpretation }

\* C1: every invocation of processTextQuery that has settled has resolved
\* with an envelope; none has rejected, whatever the store calls did, on
\* the pattern path and on the keyword path, for every handler.
C1_AlwaysResolves ==
  \A p \in Calls : Done(p) => outcome[p] = "resolved"

\* The run of C1's failing input: "resolution time" matches no rule, the
\* classifier calls the resolution-time handler, ticket.findMany fails and
\* the promise of processTextQuery rejects.
C1_RejectionReached ==
  \E p \in Calls :
    /\ received[p] = "resolution time"
    /\ dispatch[p] = [rule |-> 0, path |-> "keyword",
                      handler |-> "resolutionTime", teamName |-> "all"]
    /\ storeCalls[p] = << [op |-> "ticket.findMany", scope |-> "all", type |-> "any", ok |-> FALSE] >>
    /\ outcome[p] = "rejected"

\* C2: a query that matches one of rules 1-4 and ends in a team clause
\* ("for <name>" or "of <name>", optionally with the word "team") has its
\* handler called with the trimmed name of the clause, compared without
\* regard to case, and not with 'all'.
C2_TrailingTeamClauseExtracted ==
  \A p \in Calls :
    (Started(p) /\ dispatch[p].rule \in 1..4 /\ TrailingTeamNameOf[received[p]] # "")
      => /\ dispatch[p].teamName # "all"
         /\ ToLowerCase(dispatch[p].teamName) = TrailingTeamNameOf[received[p]]

\* The run of C2's failing input: rule 1 matches the text and the velocity
\* handler is called with 'all'.
C2_ClauseLostReached ==
  \E p \in Calls :
    /\ received[p] = "Show Q1 velocity for Frontend Team"
    /\ dispatch[p] = [rule |-> 1, path |-> "pattern",
                      handler |-> "velocity", teamName |-> "all"]
    /\ Done(p)
    /\ envelope[p].result # NullResult
    /\ envelope[p].result.team = "All Teams"

\* C3: on the keyword path, when several categories share the highest
\* keyword count, the handler called is that of the first of them in the
\* declaration order velocity, bugs, resolution, trends, performance.
C3_TieGoesToFirstCategory ==
  \A p \in Calls :
    (Started(p) /\ dispatch[p].path = "keyword" /\ FirstBestCategoryOf[received[p]] # 0)
      => dispatch[p].handler =
           CategoryHandler(KeywordCategories[FirstBestCategoryOf[received[p]]].category)

\* The run of C3's failing input: one velocity keyword and one bugs
\* keyword, and the bug-count handler is called.
C3_TieToLaterReached ==
  \E p \in Calls :
    /\ received[p] = "velocity bug"
    /\ KeywordCountsOf[received[p]] = <<1, 1, 0, 0, 0>>
    /\ dispatch[p].path = "keyword"
    /\ dispatch[p].handler = "bugCount"

\* C4: whenever a handler is called with a team name other than 'all' that
\* no team has (compared without regard to case) and no store call fails,
\* the envelope has result null and an interpretation containing the team
\* name, and no unfiltered store call was made.
C4_UnknownTeamNeverAggregated ==
  \A p \in Calls :
    ( /\ Done(p)
      /\ dispatch[p].teamName # "all"
      /\ TeamsNamed(store, dispatch[p].teamName) = {}
      /\ FailedCalls(p) = {} )
      => /\ outcome[p] = "resolved"
         /\ envelope[p].result = NullResult
         /\ Includes(envelope[p].interpretation, dispatch[p].teamName)
         /\ \A i \in 1..Len(storeCalls[p]) :
              storeCalls[p][i].op = "team.findFirst"

\* The run of C4's failing input: the completed-tickets handler is called
\* with a name no team has and answers from all completed tickets.
C4_UnknownTeamAggregatedReached ==
  \E p \in Calls :
    /\ received[p] = "completed tickets\nnosuch"
    /\ dispatch[p].handler = "completedTickets"
    /\ dispatch[p].teamName = "nosuch"
    /\ storeCalls[p] = << [op |-> "ticket.findMany", scope |-> "all", type |-> "any", ok |-> TRUE] >>
    /\ Done(p)
    /\ envelope[p].result # NullResult
    /\ envelope[p].result.totalCompleted = Cardinality(CompletedTickets(store))
    /\ envelope[p].result.totalCompleted > 0

\* C5: whenever a store call made for a query has failed and
\* processTextQuery has returned an envelope, the envelope has result null
\* and an interpretation that reports the failure, for every handler.
C5_FailureIsReported ==
  \A p \in Calls :
    (Done(p) /\ outcome[p] = "resolved" /\ FailedCalls(p) # {})
      => /\ envelope[p].result = NullResult
         /\ envelope[p].interpretation \in FailureInterpretations

\* The run of C5's failing input: sprint.findMany fails under the
\* quarterly-trends handler and the envelope carries the trends sentence.
C5_FailureMaskedReached ==
  \E p \in Calls :
    /\ received[p] = "quarterly trend"
    /\ dispatch[p].handler = "quarterlyTrends"
    /\ storeCalls[p] = << [op |-> "sprint.findMany", scope |-> "all", type |-> "any", ok |-> FALSE] >>
    /\ outcome[p] = "resolved"
    /\ envelope[p].result = NullResult
    /\ envelope[p].interpretation =
         QuarterlyTrendsEnvelope(NoEnvelope).interpretation

\* C6: a query whose normalised text matches at least one rule is
\* dispatched to the handler of a rule that matches it, whatever the
\* keyword classifier would select for it; the classifier decides only when
\* no rule matches.
C6_PatternsBeforeKeywords ==
  \A p \in Calls :
    Started(p) =>
      LET hits == MatchingRulesOf[received[p]]
      IN  /\ (dispatch[p].path = "pattern") <=> (hits # {})
          /\ (dispatch[p].path = "keyword") <=> (hits = {})
          /\ hits # {} =>
               /\ dispatch[p].rule \in hits
               /\ dispatch[p].handler = RuleHandler(dispatch[p].rule)
               /\ dispatched[p] = <<RuleHandler(dispatch[p].rule)>>
          /\ hits = {} =>
               /\ dispatch[p].rule = 0
               /\ dispatch[p].handler = ClassifierHandlerOf[received[p]]

\* A query answered on the pattern path for which the classifier would
\* have selected another handler, and a query answered by the classifier.
C6_PatternOverKeywordsReached ==
  \E p, r \in Calls :
    /\ Done(p)
    /\ dispatch[p].path = "pattern"
    /\ ClassifierHandlerOf[received[p]] \notin {"none", dispatch[p].handler}
    /\ Done(r)
    /\ dispatch[r].path = "keyword"
    /\ dispatch[r].handler # "none"

\* C7: the handler called is that of the lowest-numbered rule whose pattern
\* matches; one handler is called per query, at most, and exactly one when
\* a rule matches, also when the envelope it returns has result null.
C7_FirstMatchingRuleWins ==
  \A p \in Calls :
    /\ Len(dispatched[p]) <= 1
    /\ Started(p) =>
         LET hits == MatchingRulesOf[received[p]]
         IN  hits # {} =>
               /\ \A j \in hits : dispatch[p].rule <= j
               /\ dispatch[p].rule \in hits
               /\ dispatched[p] = <<RuleHandler(dispatch[p].rule)>>
               /\ dispatch[p].handler = RuleHandler(dispatch[p].rule)

\* A query that two rules match, answered with result null by the handler
\* of the first of them.
C7_NullResultOfFirstRuleReached ==
  \E p \in Calls :
    /\ Done(p)
    /\ Cardinality(MatchingRulesOf[received[p]]) >= 2
    /\ outcome[p] = "resolved"
    /\ envelope[p].result = NullResult
    /\ dispatch[p].rule = 1
    /\ 6 \in MatchingRulesOf[received[p]]
    /\ dispatched[p] = <<"velocity">>

\* C8: a query that matches no rule and contains no keyword of any category
\* is answered with the static guidance envelope, result null, and no store
\* call is made for it.
C8_UnclassifiedGetsGuidance ==
  \A p \in Calls :
    ( /\ Started(p)
      /\ MatchingRulesOf[received[p]] = {}
      /\ \A c \in 1..Len(KeywordCategories) : KeywordCountsOf[received[p]][c] = 0 )
      => /\ Done(p)
         /\ outcome[p] = "resolved"
         /\ envelope[p].result = NullResult
         /\ envelope[p].interpretation = GuidanceText
         /\ storeCalls[p] = << >>
         /\ dispatched[p] = << >>

\* An unclassified query answered with the guidance envelope.
C8_GuidanceReached ==
  \E p \in Calls :
    /\ received[p] = "xyz random gibberish"
    /\ Done(p)
    /\ envelope[p] = GuidanceEnvelope("xyz random gibberish")
    /\ storeCalls[p] = << >>

\* C9: two queries that are equal after lower-casing and trimming are
\* dispatched to the same handler with the same team, and, over the same
\* store answering the same way, settle alike with the same result and the
\* same interpretation.
C9_NormalisationDecides ==
  \A p, r \in Calls :
    (Started(p) /\ Started(r) /\ NormalizedOf[received[p]] = NormalizedOf[received[r]])
      => /\ dispatch[p] = dispatch[r]
         /\ (Done(p) /\ Done(r) /\ storeCalls[p] = storeCalls[r])
              => /\ outcome[p] = outcome[r]
                 /\ envelope[p].result = envelope[r].result
                 /\ envelope[p].interpretation = envelope[r].interpretation

\* Two different texts with the same normal form, both answered from the
\* store with a result.
C9_SameNormalFormReached ==
  \E p, r \in Calls :
    /\ Done(p) /\ Done(r)
    /\ received[p] # received[r]
    /\ NormalizedOf[received[p]] = NormalizedOf[received[r]]
    /\ storeCalls[p] = storeCalls[r]
    /\ storeCalls[p] # << >>
    /\ envelope[p].result # NullResult
    /\ envelope[p].query # envelope[r].query

\* C10: every envelope processTextQuery resolves with carries the text as
\* received in its query field.
C10_QueryEchoed ==
  \A p \in Calls : outcome[p] = "resolved" => envelope[p].query = received[p]

\* Envelopes for texts that differ from their normal form: one from the
\* pattern path, one from the keyword path.
C10_RawTextEchoedReached ==
  \E p, r \in Calls :
    /\ outcome[p] = "resolved" /\ outcome[r] = "resolved"
    /\ dispatch[p].path = "pattern" /\ dispatch[r].path = "keyword"
    /\ received[p] # NormalizedOf[received[p]]
    /\ received[r] # NormalizedOf[received[r]]
    /\ envelope[p].query = received[p]
    /\ envelope[r].query = received[r]

\* match[4] of each rule on each text of the model (Undefined where the
\* rule does not match).
Group4Of ==
  [q \in AllQueries |->
     [k \in 1..NumRules |->
        IF k \in MatchingRulesOf[q] THEN MatchGroup(k, NormalizedOf[q], 4)
        ELSE Undefined]]

\* Capture groups without a team name: undefined, empty, white space only.
BlankGroups == {Undefined, Captured(""), Captured(" "), Captured(" \t\n ")}

TeamLookups(p) ==
  {i \in 1..Len(storeCalls[p]) : storeCalls[p][i].op = "team.findFirst"}

\* C11: when group 4 of the matched rule is undefined, empty or white
\* space only, the handler is called with 'all'; rules 5 and 6 give 'all'
\* for every text, and their handlers never look a team up.
C11_NoTeamMeansAll ==
  /\ \A g \in BlankGroups : TeamNameFromGroup(g) = "all"
  /\ \A p \in Calls :
       (Started(p) /\ dispatch[p].path = "pattern") =>
         LET g == Group4Of[received[p]][dispatch[p].rule]
         IN  /\ (~g.defined \/ Trim(g.text) = "") => dispatch[p].teamName = "all"
             /\ dispatch[p].rule \in {5, 6} =>
                  /\ dispatch[p].teamName = "all"
                  /\ TeamLookups(p) = {}
                  /\ foundTeam[p] = NoTeam

\* Rules 5 and 6 answering for all teams texts that name a team, and rule 1
\* answering for all teams a text in which group 4 captured nothing.
C11_AllTeamsReached ==
  \E p, r \in Calls :
    /\ Done(p) /\ Done(r)
    /\ received[p] = "squad metrics\nbackend team"
    /\ dispatch[p].rule = 5
    /\ dispatch[p].teamName = "all"
    /\ envelope[p].result # NullResult
    /\ Cardinality(envelope[p].result.rows) = Cardinality(store.teams)
    /\ store.teams # {}
    /\ \/ /\ received[r] = "period\nbackend team"
          /\ dispatch[r].rule = 6
       \/ /\ dispatch[r].rule = 1
          /\ ~Group4Of[received[r]][1].defined
    /\ dispatch[r].teamName = "all"
    /\ envelope[r].result # NullResult
    /\ envelope[r].result.team = "All Teams"

\* The category the classifier selects for each text of the model.
BestCategoryOf == [q \in AllQueries |-> BestCategory(q)]

\* The pattern rule that corresponds to a keyword category.
CategoryRule(category) ==
  CASE category = "velocity"    -> 1
    [] category = "bugs"        -> 2
    [] category = "resolution"  -> 3
    [] category = "performance" -> 5
    [] category = "trends"      -> 6

\* C12: when the keyword classifier selects a category, the handler called
\* is the handler of the corresponding pattern rule, it is called with
\* 'all', and no team is looked up, whatever team words the text contains.
C12_ClassifierUsesRuleHandlers ==
  \A p \in Calls :
    ( /\ Started(p)
      /\ dispatch[p].path = "keyword"
      /\ BestCategoryOf[received[p]] # "none" )
      => /\ dispatch[p].handler =
              RuleHandler(CategoryRule(BestCategoryOf[received[p]]))
         /\ dispatched[p] = <<dispatch[p].handler>>
         /\ dispatch[p].teamName = "all"
         /\ TeamLookups(p) = {}
         /\ foundTeam[p] = NoTeam

\* A text that names a team, classified as bugs and answered for all teams;
\* and a text classified as resolution.
C12_ClassifiedReached ==
  \E p, r \in Calls :
    /\ Done(p) /\ Done(r)
    /\ received[p] = "bug for Backend Team"
    /\ dispatch[p] = [rule |-> 0, path |-> "keyword",
                      handler |-> "bugCount", teamName |-> "all"]
    /\ envelope[p].result # NullResult
    /\ envelope[p].result.team = "All Teams"
    /\ BestCategoryOf[received[r]] = "resolution"
    /\ dispatch[r].handler = "resolutionTime"
    /\ outcome[r] = "resolved"

\* The velocity handler has answered call p from the store: directly or
\* under the quarterly-trends handler, with no failed store call and, when
\* a team was asked for, the team found.
VelocityAnswered(p) ==
  /\ Done(p)
  /\ outcome[p] = "resolved"
  /\ dispatch[p].handler \in {"velocity", "quarterlyTrends"}
  /\ FailedCalls(p) = {}
  /\ dispatch[p].teamName # "all" => foundTeam[p] # NoTeam

\* The sprints the velocity handler of call p chooses from: those of the
\* team found, or all sprints in all-teams mode.
SprintsInScope(p) ==
  IF dispatch[p].teamName = "all" THEN store.sprints
  ELSE {sp \in store.sprints : sp.teamId = foundTeam[p].id}

\* C13: when the velocity handler finds no sprint (all-teams mode over a
\* store without sprints, or a team that has none), the result is not null
\* and has averageVelocity 0 and sprintsAnalyzed 0.
C13_NoSprintsGivesZero ==
  \A p \in Calls :
    (VelocityAnswered(p) /\ SprintsInScope(p) = {})
      => /\ envelope[p].result # NullResult
         /\ envelope[p].result.kind = "velocity"
         /\ envelope[p].result.averageVelocity100 = 0
         /\ envelope[p].result.sprintsAnalyzed = 0

\* The velocity of a team that exists and has no sprints, in a store where
\* other teams have sprints.
C13_TeamWithoutSprintsReached ==
  \E p \in Calls :
    /\ VelocityAnswered(p)
    /\ received[p] = "show velocity\ndevops team"
    /\ foundTeam[p].name = "DevOps Team"
    /\ store.sprints # {}
    /\ SprintsInScope(p) = {}
    /\ envelope[p].result.sprintsAnalyzed = 0
    /\ envelope[p].result.team = "DevOps Team"

\* The sprints of S fewer than five sprints of S ended after.  (When the
\* end dates of S are distinct these are its five latest sprints.)
LatestFive(S) ==
  {a \in S : Cardinality({b \in S : b.endDate > a.endDate}) < 5}

DistinctEndDates(S) == \A a, b \in S : a.endDate = b.endDate => a = b

\* The sum of the story points of the DONE tickets of the sprints T, a
\* ticket without story points counting 0.
DonePointsOf(T) ==
  SumStoryPoints({k \in store.tickets :
                    k.status = "DONE" /\ k.sprintId \in {sp.id : sp \in T}})

\* r is num / den rounded to the nearest integer (den > 0).
IsNearest(r, num, den) ==
  /\ 2 * (r * den - num) <= den
  /\ 2 * (num - r * den) <= den

\* C14: the velocity handler analyses the sprints with the latest end
\* dates, five at most, of the team asked for when one is asked for;
\* sprintsAnalyzed is their number and averageVelocity the story points of
\* their DONE tickets per sprint, rounded to two decimals.
C14_VelocityOfLatestFive ==
  \A p \in Calls :
    (VelocityAnswered(p) /\ DistinctEndDates(SprintsInScope(p)))
      => LET T   == LatestFive(SprintsInScope(p))
             res == envelope[p].result
         IN  /\ res # NullResult
             /\ \A sp \in T :
                  dispatch[p].teamName # "all" => sp.teamId = foundTeam[p].id
             /\ res.sprintsAnalyzed = Cardinality(T)
             /\ res.sprintsAnalyzed <= 5
             /\ IF T = {} THEN res.averageVelocity100 = 0
                ELSE IsNearest(res.averageVelocity100,
                               100 * DonePointsOf(T), Cardinality(T))

\* The velocity of a team with six sprints, the first of which holds DONE
\* story points, and the velocity of a team whose average needs rounding.
C14_FiveOfSixReached ==
  \E p, r \in Calls :
    /\ VelocityAnswered(p) /\ VelocityAnswered(r)
    /\ foundTeam[p].name = "Frontend Team"
    /\ Cardinality(SprintsInScope(p)) = 6
    /\ DonePointsOf(SprintsInScope(p)) > DonePointsOf(LatestFive(SprintsInScope(p)))
    /\ envelope[p].result.sprintsAnalyzed = 5
    /\ envelope[p].result.averageVelocity100 = 60
    /\ foundTeam[r].name = "Backend Team"
    /\ envelope[r].result.sprintsAnalyzed = 3
    /\ envelope[r].result.averageVelocity100 = 333

\* The bug-count handler answered call p with its payload.
BugCountAnswered(p) ==
  /\ Done(p)
  /\ dispatch[p].handler = "bugCount"
  /\ outcome[p] = "resolved"
  /\ envelope[p].result # NullResult

\* The tickets created within the last 90 days, of the team call p resolved
\* when it asked for one.
TicketsOfQuarter(p) ==
  {k \in store.tickets :
     /\ k.createdAt >= Now - 90 * HoursPerDay
     /\ dispatch[p].teamName # "all" => k.teamId = foundTeam[p].id}

\* C15: the bug-count payload counts the tickets, and the tickets of type
\* BUG, created within the last 90 days (of the resolved team when a team
\* is asked for); bugRate is 0 when there is no ticket and otherwise
\* bugTickets / totalTickets * 100 rounded to two decimals, that is, in
\* hundredths, round(bugTickets / totalTickets * 10000).
C15_BugRateRoundedToHundredths ==
  \A p \in Calls :
    BugCountAnswered(p)
      => LET res   == envelope[p].result
             total == Cardinality(TicketsOfQuarter(p))
             bugs  == Cardinality({k \in TicketsOfQuarter(p) : k.type = "BUG"})
         IN  /\ res.totalTickets = total
             /\ res.bugTickets = bugs
             /\ IF total = 0 THEN res.bugRate100 = 0
                ELSE res.bugRate100 = (2 * bugs * 10000 + total) \div (2 * total)

\* The Backend team's busy quarter: 23 bugs in 160 tickets are 14.375 per
\* cent, which rounds to 14.38; the handler answers 14.37.
C15_RoundedDownReached ==
  \E p \in Calls :
    /\ BugCountAnswered(p)
    /\ foundTeam[p].name = "Backend Team"
    /\ envelope[p].result.totalTickets = 160
    /\ envelope[p].result.bugTickets = 23
    /\ envelope[p].result.bugRate100 = 1437

\* The resolution-time handler answered call p: its store call succeeded.
ResolutionTimeAnswered(p) ==
  /\ Done(p)
  /\ dispatch[p].handler = "resolutionTime"
  /\ FailedCalls(p) = {}

\* C16: when no ticket is DONE with a resolution date the resolution-time
\* handler resolves with a null result and the interpretation "No resolved
\* tickets found ...", which is none of the failure interpretations;
\* otherwise the result is not null and ticketsAnalyzed is the number of
\* such tickets.
C16_NoResolvedTicketsIsNoData ==
  \A p \in Calls :
    ResolutionTimeAnswered(p)
      => LET n == Cardinality({k \in store.tickets :
                                 k.status = "DONE" /\ k.resolvedAt # Null})
         IN  /\ outcome[p] = "resolved"
             /\ envelope[p].interpretation \notin FailureInterpretations
             /\ IF n = 0
                THEN /\ envelope[p].result = NullResult
                     /\ envelope[p].interpretation =
                          "No resolved tickets found to calculate resolution time."
                ELSE /\ envelope[p].result # NullResult
                     /\ envelope[p].result.ticketsAnalyzed = n
                     /\ envelope[p].result.unit = "days"

\* The handler has answered from a store without tickets, and from a store
\* where one of the five DONE tickets has no resolution date.
C16_NoDataAndDataReached ==
  \/ /\ store.tickets = {}
     /\ \E p \in Calls :
          /\ ResolutionTimeAnswered(p)
          /\ envelope[p].result = NullResult
  \/ /\ Cardinality({k \in store.tickets : k.status = "DONE"}) = 5
     /\ \E p \in Calls :
          /\ ResolutionTimeAnswered(p)
          /\ envelope[p].result # NullResult
          /\ envelope[p].result.ticketsAnalyzed = 4

\* The team-performance handler answered call p: its store call succeeded.
TeamPerformanceAnswered(p) ==
  /\ Done(p)
  /\ dispatch[p].handler = "teamPerformance"
  /\ FailedCalls(p) = {}

\* C17: the team-performance result has exactly one entry per team of the
\* store, teams without tickets included; in every entry completionRate and
\* bugRate are integers from 0 to 100, both 0 when the team has no ticket,
\* and neither completedTickets nor bugCount exceeds totalTickets.
C17_OneEntryPerTeam ==
  \A p \in Calls :
    TeamPerformanceAnswered(p)
      => LET rows == envelope[p].result.rows
         IN  /\ envelope[p].result # NullResult
             /\ Cardinality(rows) = Cardinality(store.teams)
             /\ \A t \in store.teams :
                  \E r \in rows :
                    /\ r.teamName = t.name
                    /\ r.totalTickets =
                         Cardinality({k \in store.tickets : k.teamId = t.id})
             /\ \A r \in rows :
                  /\ r.completionRate \in 0..100
                  /\ r.bugRate \in 0..100
                  /\ r.totalTickets = 0 => r.completionRate = 0 /\ r.bugRate = 0
                  /\ r.completedTickets <= r.totalTickets
                  /\ r.bugCount <= r.totalTickets

\* An overview of three teams, one of which has no ticket and another
\* three DONE tickets, one of them a bug, in four.
C17_IdleTeamListedReached ==
  \E p \in Calls :
    /\ TeamPerformanceAnswered(p)
    /\ Cardinality(envelope[p].result.rows) = 3
    /\ \E r \in envelope[p].result.rows :
         r.teamName = "DevOps Team" /\ r.totalTickets = 0 /\ r.completionRate = 0
    /\ \E r \in envelope[p].result.rows :
         /\ r.teamName = "Frontend Team"
         /\ r.totalTickets = 4 /\ r.completedTickets = 3 /\ r.completionRate = 75
         /\ r.bugCount = 1 /\ r.bugRate = 25

\* The completed-tickets handler answered call p: its store call succeeded.
CompletedTicketsAnswered(p) ==
  /\ Done(p)
  /\ dispatch[p].handler = "completedTickets"
  /\ FailedCalls(p) = {}

\* The DONE tickets of the store, and those of the team named nm.
DoneTickets == {k \in store.tickets : k.status = "DONE"}
DoneTicketsOfTeam(nm) ==
  {k \in DoneTickets : \E t \in store.teams : t.id = k.teamId /\ t.name = nm}

\* The sum of f over the set S of its arguments.
RECURSIVE SumOver(_, _)
SumOver(f, S) ==
  IF S = {} THEN 0
  ELSE LET x == CHOOSE y \in S : TRUE IN f[x] + SumOver(f, S \ {x})

\* C18: totalCompleted is the number of DONE tickets; byTeam has an entry
\* exactly for the teams that own a DONE ticket; a team's entry holds the
\* number of its DONE tickets and the sum of their story points, a ticket
\* without story points counting 0; the completed counts add up to
\* totalCompleted.
C18_CompletedByTeam ==
  \A p \in Calls :
    CompletedTicketsAnswered(p)
      => LET res    == envelope[p].result
             byTeam == res.byTeam
         IN  /\ res # NullResult
             /\ res.totalCompleted = Cardinality(DoneTickets)
             /\ DOMAIN byTeam =
                  {t.name : t \in {u \in store.teams :
                                     \E k \in DoneTickets : k.teamId = u.id}}
             /\ \A nm \in DOMAIN byTeam :
                  /\ byTeam[nm].completed = Cardinality(DoneTicketsOfTeam(nm))
                  /\ byTeam[nm].storyPoints =
                       SumOver([k \in DoneTicketsOfTeam(nm) |->
                                  IF k.storyPoints = Null THEN 0 ELSE k.storyPoints],
                               DoneTicketsOfTeam(nm))
             /\ SumOver([nm \in DOMAIN byTeam |-> byTeam[nm].completed],
                        DOMAIN byTeam) = res.totalCompleted

\* Five DONE tickets of two of the three teams, one DONE ticket without
\* story points, and tickets that are not DONE.
C18_TwoTeamsCompletedReached ==
  \E p \in Calls :
    /\ CompletedTicketsAnswered(p)
    /\ Cardinality(store.teams) = 3
    /\ \E k \in store.tickets : k.status # "DONE"
    /\ \E k \in DoneTickets : k.storyPoints = Null
    /\ envelope[p].result.totalCompleted = 5
    /\ DOMAIN envelope[p].result.byTeam = {"Frontend Team", "Backend Team"}
    /\ envelope[p].result.byTeam["Frontend Team"] = [completed |-> 3, storyPoints |-> 8]
    /\ envelope[p].result.byTeam["Backend Team"] = [completed |-> 2, storyPoints |-> 10]

\* The envelopes handleVelocityQuery(q, 'all') can return on the present
\* store: the failure envelope when its store call fails, and otherwise the
\* payload over the latest sprints.
VelocityAllEnvelopes(q, failed) ==
  IF failed THEN {VelocityFailureEnvelope(q)}
  ELSE {VelocityEnvelope(store, q, "all", NoTeam, T) :
          T \in LatestSprintsOf[store.sprints]}

SuggestionText ==
  "Showing Q1 velocity trends across all teams. " \o
  "Try being more specific like 'Q2 bugs for Frontend team'"

\* C19: a quarterly-trends envelope carries the query and the result of
\* the velocity handler in all-teams mode on the same store, and the fixed
\* suggestion as its interpretation; a velocity call in all-teams mode
\* whose store call fared the same carries the same result.
C19_TrendsIsVelocityOfAllTeams ==
  \A p \in Calls :
    (Done(p) /\ dispatch[p].handler = "quarterlyTrends")
      => /\ outcome[p] = "resolved"
         /\ envelope[p].query = received[p]
         /\ envelope[p].interpretation = SuggestionText
         /\ \E v \in VelocityAllEnvelopes(received[p], FailedCalls(p) # {}) :
              /\ envelope[p].query = v.query
              /\ envelope[p].result = v.result
              /\ envelope[p].interpretation # v.interpretation
         /\ \A r \in Calls :
              ( /\ Done(r)
                /\ dispatch[r].handler = "velocity"
                /\ dispatch[r].teamName = "all"
                /\ storeCalls[r] = storeCalls[p]
                /\ DistinctEndDates(store.sprints) )
                => envelope[r].result = envelope[p].result

\* A quarterly-trends answer and a velocity answer for all teams carrying
\* the same payload, computed over five of nine sprints, under different
\* interpretations.
C19_SamePayloadReached ==
  \E p, r \in Calls :
    /\ Done(p) /\ dispatch[p].handler = "quarterlyTrends"
    /\ Done(r) /\ dispatch[r].handler = "velocity" /\ dispatch[r].teamName = "all"
    /\ FailedCalls(p) = {} /\ FailedCalls(r) = {}
    /\ Cardinality(store.sprints) = 9
    /\ envelope[p].result # NullResult
    /\ envelope[p].result.sprintsAnalyzed = 5
    /\ envelope[p].result.averageVelocity100 = 260
    /\ envelope[p].result = envelope[r].result
    /\ envelope[p].interpretation # envelope[r].interpretation

\* Call p was answered by handler h, its store call having succeeded.
AnsweredBy(p, h) ==
  /\ Done(p)
  /\ dispatch[p].handler = h
  /\ FailedCalls(p) = {}

\* C20: the resolution-time and completed-tickets handlers ignore the team
\* argument: two calls of the same handler with any two team arguments
\* return the same result and interpretation; the result covers the
\* tickets of all teams; neither handler looks a team up.
C20_TeamArgumentIgnored ==
  \A p \in Calls :
    \A h \in {"resolutionTime", "completedTickets"} :
      (Done(p) /\ dispatch[p].handler = h)
        => /\ TeamLookups(p) = {}
           /\ \A i \in 1..Len(storeCalls[p]) : storeCalls[p][i].scope = "all"
           /\ foundTeam[p] = NoTeam
           /\ (AnsweredBy(p, "resolutionTime") /\ envelope[p].result # NullResult)
                => envelope[p].result.ticketsAnalyzed =
                     Cardinality({k \in store.tickets :
                                    k.status = "DONE" /\ k.resolvedAt # Null})
           /\ AnsweredBy(p, "completedTickets")
                => envelope[p].result.totalCompleted =
                     Cardinality({k \in store.tickets : k.status = "DONE"})
           /\ \A r \in Calls :
                (AnsweredBy(p, h) /\ AnsweredBy(r, h))
                  => /\ envelope[r].result = envelope[p].result
                     /\ envelope[r].interpretation = envelope[p].interpretation

\* Two answers of the same handler, one for an existing team and one for a
\* team that does not exist or for no team, on a store where the team asked
\* for owns some but not all of the tickets counted.
C20_DifferentTeamsSameAnswerReached ==
  \E h \in {"resolutionTime", "completedTickets"} :
    \E p, r \in Calls :
      /\ AnsweredBy(p, h) /\ AnsweredBy(r, h)
      /\ TeamsNamed(store, dispatch[p].teamName) # {}
      /\ dispatch[r].teamName \in {"all", "nosuch"}
      /\ dispatch[p].path = "direct"
      /\ envelope[p].result # NullResult
      /\ envelope[p].result = envelope[r].result
      /\ \E k, l \in store.tickets :
           /\ k.status = "DONE" /\ l.status = "DONE"
           /\ k.resolvedAt # Null /\ l.resolvedAt # Null
           /\ k.teamId \in {t.id : t \in TeamsNamed(store, dispatch[p].teamName)}
           /\ l.teamId \notin {t.id : t \in TeamsNamed(store, dispatch[p].teamName)}

\* What an invocation with text q returns when it runs alone on the
\* database st and its store calls all answer (failed FALSE) or one of
\* them fails (failed TRUE): the possible pairs of outcome and envelope.
AloneResultsWhen(st, q, failed) ==
  LET d       == DispatchOf[q]
      tn      == d.teamName
      Ok(env) == [outcome |-> "resolved", envelope |-> env]
      thrown  == IF d.path = "pattern"
                 THEN Ok(ProcessErrorEnvelope(q))
                 ELSE [outcome |-> "rejected", envelope |-> NoEnvelope]
      teams   == TeamsNamed(st, tn)
  IN  CASE d.handler = "none" -> {Ok(GuidanceEnvelope(q))}
        [] d.handler = "velocity" /\ tn # "all" ->
             IF failed THEN {Ok(VelocityFailureEnvelope(q))}
             ELSE IF teams = {} THEN {Ok(TeamNotFoundEnvelope(q, tn))}
             ELSE {Ok(VelocityEnvelope(st, q, tn, t[1], t[2])) :
                     t \in {u \in teams \X SUBSET st.sprints :
                              u[2] \in LatestSprintsOf[{sp \in st.sprints :
                                                          sp.teamId = u[1].id}]}}
        [] d.handler = "velocity" /\ tn = "all" ->
             IF failed THEN {Ok(VelocityFailureEnvelope(q))}
             ELSE {Ok(VelocityEnvelope(st, q, "all", NoTeam, T)) :
                     T \in LatestSprintsOf[st.sprints]}
        [] d.handler = "quarterlyTrends" ->
             IF failed
             THEN {Ok(QuarterlyTrendsEnvelope(VelocityFailureEnvelope(q)))}
             ELSE {Ok(QuarterlyTrendsEnvelope(
                        VelocityEnvelope(st, q, "all", NoTeam, T))) :
                     T \in LatestSprintsOf[st.sprints]}
        [] d.handler = "bugCount" ->
             IF failed THEN {Ok(BugCountFailureEnvelope(q))}
             ELSE IF tn # "all" /\ teams = {} THEN {Ok(TeamNotFoundEnvelope(q, tn))}
             ELSE {Ok(BugCountEnvelope(q, tn, t, CountTickets(st, t.id, "any"),
                                       CountTickets(st, t.id, "BUG"))) :
                     t \in IF tn = "all" THEN {NoTeam} ELSE teams}
        [] d.handler = "resolutionTime" ->
             IF failed THEN {thrown}
             ELSE {Ok(ResolutionTimeEnvelope(q, ResolvedTickets(st)))}
        [] d.handler = "completedTickets" ->
             IF failed THEN {thrown}
             ELSE {Ok(CompletedTicketsEnvelope(st, q, CompletedTickets(st)))}
        [] d.handler = "teamPerformance" ->
             IF failed THEN {thrown}
             ELSE {Ok(TeamPerformanceEnvelope(st, q))}

\* AloneResultsWhen for every database and text of the specification.
AloneResultsOf ==
  [st \in Stores |->
     [q \in Queries |->
        [failed \in BOOLEAN |-> AloneResultsWhen(st, q, failed)]]]

\* The results of a lone invocation whose store calls answered oks, in
\* order: a call has failed when one of the answers is a failure.
AloneResults(st, q, oks) ==
  AloneResultsOf[st][q][\E i \in 1..Len(oks) : ~oks[i]]

\* The answers of the store calls invocation p has made, in order.
CallOutcomes(p) == [i \in 1..Len(storeCalls[p]) |-> storeCalls[p][i].ok]

\* C21: the interpreter keeps no state between invocations and concurrent
\* invocations do not affect each other: the patterns of the rules are
\* never written (lastIndex stays 0), and whatever the interleaving, every
\* settled invocation has the outcome and the envelope it has when it runs
\* alone on the same database with the same answers of the store; two
\* invocations with the same text and the same answers agree.
C21_InvocationsIndependent ==
  /\ lastIndex = [k \in 1..NumRules |-> 0]
  /\ \A p \in Calls :
       Done(p) =>
         /\ [outcome |-> outcome[p], envelope |-> envelope[p]]
              \in AloneResults(store, received[p], CallOutcomes(p))
         /\ \A r \in Calls :
              ( /\ Done(r)
                /\ received[r] = received[p]
                /\ storeCalls[r] = storeCalls[p] )
                => /\ outcome[r] = outcome[p]
                   /\ envelope[r] = envelope[p]

\* Two invocations with different texts whose store calls were interleaved
\* (each has called the store while the other awaited an answer), settled
\* with different envelopes.
C21_InterleavedReached ==
  \E p, r \in Calls :
    /\ Done(p) /\ Done(r)
    /\ received[p] # received[r]
    /\ dispatch[p].handler = "bugCount" /\ dispatch[r].handler = "velocity"
    /\ Len(storeCalls[p]) >= 2 /\ Len(storeCalls[r]) >= 1
    /\ FailedCalls(p) = {} /\ FailedCalls(r) = {}
    /\ envelope[p].result # NullResult /\ envelope[r].result # NullResult
    /\ envelope[p] # envelope[r]

\* The counts invocation p has been answered or refused, in the order of
\* their completion.
CountCalls(p) ==
  SelectSeq(storeCalls[p], LAMBDA c : c.op = "ticket.count")

\* C22: the two counts of the bug-count handler are in flight together
\* (while the handler awaits them, each count not yet answered is still
\* outstanding, and either may complete first); on an unchanged store the
\* payload does not depend on the order in which they complete: it
\* carries the count of all tickets as totalTickets and the count of BUG
\* tickets as bugTickets; and if either count fails the handler returns
\* the failure envelope with result null.
C22_CountsAwaitedJointly ==
  \A p \in Calls :
    LET cs == CountCalls(p) IN
    /\ Len(cs) <= 2
    /\ \A i, j \in 1..Len(cs) : i # j => cs[i].type # cs[j].type
    /\ pc[p] = "bugCounts" =>
         /\ \A i \in 1..Len(cs) : cs[i].ok
         /\ \A w \in {"total", "bug"} :
              (counts[p][w] = Null) <=>
                (\A i \in 1..Len(cs) : cs[i].type # CountedType(w))
         /\ \A w \in {"total", "bug"} :
              counts[p][w] = Null => ENABLED HandleBugCountQuery_Count(p, w)
    /\ (Done(p) /\ dispatch[p].handler = "bugCount" /\ Len(cs) > 0) =>
         /\ outcome[p] = "resolved"
         /\ IF \E i \in 1..Len(cs) : ~cs[i].ok
            THEN /\ envelope[p] = BugCountFailureEnvelope(received[p])
                 /\ envelope[p].result = NullResult
            ELSE /\ Len(cs) = 2
                 /\ envelope[p] =
                      BugCountEnvelope(received[p], dispatch[p].teamName, foundTeam[p],
                                       CountTickets(store, foundTeam[p].id, "any"),
                                       CountTickets(store, foundTeam[p].id, "BUG"))
                 /\ \A r \in Calls :
                      ( /\ Done(r)
                        /\ received[r] = received[p]
                        /\ foundTeam[r] = foundTeam[p]
                        /\ Len(CountCalls(r)) = 2
                        /\ \A i \in 1..2 : CountCalls(r)[i].ok )
                        => envelope[r] = envelope[p]

\* Two invocations with the same text on a store with tickets: in one the
\* count of all tickets was answered first, in the other the count of BUG
\* tickets; both carry the same payload, with different counts in it.
C22_BothOrdersReached ==
  \E p, r \in Calls :
    /\ BugCountAnswered(p) /\ BugCountAnswered(r)
    /\ received[p] = received[r]
    /\ Len(CountCalls(p)) = 2 /\ Len(CountCalls(r)) = 2
    /\ CountCalls(p)[1].type = "any" /\ CountCalls(p)[2].type = "BUG"
    /\ CountCalls(r)[1].type = "BUG" /\ CountCalls(r)[2].type = "any"
    /\ envelope[p] = envelope[r]
    /\ envelope[p].result.totalTickets > envelope[p].result.bugTickets
    /\ envelope[p].result.bugTickets > 0

\* w occurs in s as a substring.
OccursIn(w, s) ==
  \E i \in 1..Len(s) : i + Len(w) - 1 <= Len(s) /\ SubSeq(s, i, i + Len(w) - 1) = w

\* The score of category c for text q: the number of its keywords that
\* occur in the lower-cased text.
ScoreOf ==
  [q \in AllQueries |->
     [c \in 1..Len(KeywordCategories) |->
        Cardinality({kw \in KeywordCategories[c].keywords :
                       OccursIn(kw, ToLowerCase(q))})]]

\* The categories whose score is strictly greater than every other one's.
StrictlyBestOf ==
  [q \in AllQueries |->
     {c \in 1..Len(KeywordCategories) :
        \A d \in 1..Len(KeywordCategories) :
          d # c => ScoreOf[q][d] < ScoreOf[q][c]}]

\* C23: the classifier counts, for each category, the keywords that occur
\* as substrings of the lower-cased text, and whenever one category's
\* count is strictly greater than every other category's, the handler of
\* that category is the one dispatched, wherever the category stands in
\* the declaration order.
C23_StrictlyBestCategoryDispatched ==
  \A p \in Calls :
    (Started(p) /\ dispatch[p].path = "keyword") =>
      /\ \A c \in 1..Len(KeywordCategories) :
           KeywordCountsOf[received[p]][c] = ScoreOf[received[p]][c]
      /\ \A c \in StrictlyBestOf[received[p]] :
           /\ dispatch[p].handler = CategoryHandler(KeywordCategories[c].category)
           /\ dispatched[p] # << >> =>
                dispatched[p][1] = CategoryHandler(KeywordCategories[c].category)

\* A text whose strictly best category comes after another category with a
\* hit has been dispatched to the later category's handler, and a text
\* whose strictly best category comes first to the earlier one's.
C23_LaterCategoryWinsReached ==
  \E p, r \in Calls :
    /\ Done(p) /\ dispatch[p].path = "keyword"
    /\ received[p] = "BUG Fix Time"
    /\ ScoreOf[received[p]] = <<0, 1, 2, 0, 0>>
    /\ dispatch[p].handler = "resolutionTime"
    /\ Done(r) /\ dispatch[r].path = "keyword"
    /\ received[r] = "sprint capacity bug"
    /\ ScoreOf[received[r]] = <<2, 1, 0, 0, 0>>
    /\ dispatch[r].handler = "velocity"

\* C24: every bug-count payload has bugTickets <= totalTickets and a bug
\* rate between 0 and 100 per cent, also when other clients insert or
\* delete tickets between the handler's two counts.
C24_BugCountsConsistent ==
  \A p \in Calls :
    BugCountAnswered(p) =>
      /\ envelope[p].result.bugTickets <= envelope[p].result.totalTickets
      /\ envelope[p].result.bugRate100 >= 0
      /\ envelope[p].result.bugRate100 <= 100 * PercentScale

\* The count of all tickets was answered while the table held one ticket,
\* two BUG tickets were then inserted, and the count of BUG tickets was
\* answered after that: the payload has more bugs than tickets and a bug
\* rate of 200 per cent.
C24_MoreBugsThanTicketsReached ==
  \E p \in Calls :
    /\ BugCountAnswered(p)
    /\ CountCalls(p)[1].type = "any" /\ CountCalls(p)[2].type = "BUG"
    /\ envelope[p].result.totalTickets = 1
    /\ envelope[p].result.bugTickets = 2
    /\ envelope[p].result.bugRate100 = 200 * PercentScale

(***************************************************************************)
(* MetricsService (metrics.service.ts).  An id of "none" stands for the    *)
(* undefined getTeamId returns; an optional parameter is Undefined when    *)
(* the caller leaves it out.                                               *)
(***************************************************************************)

\* getTeamId: prisma.team.findUnique({ where: { name: teamName } }) finds
\* the team whose name is exactly teamName; team?.id is undefined when
\* there is none, and 'all' is answered without a lookup.
GetTeamId(st, teamName) ==
  IF teamName = "all" THEN "none"
  ELSE IF \E t \in st.teams : t.name = teamName
       THEN (CHOOSE t \in st.teams : t.name = teamName).id
       ELSE "none"

\* ...(x && { x }): the filter is dropped for undefined and for ''.
Truthy(x) == x.defined /\ x.text # ""

\* getVelocityMetrics: prisma.ticket.findMany({ where: whereClause })
VelocityTickets(st, teamId, sprintId) ==
  {k \in st.tickets :
     /\ teamId = "none" \/ k.teamId = teamId
     /\ ~Truthy(sprintId) \/ k.sprintId = sprintId.text
     /\ k.status = "DONE"
     /\ k.storyPoints # Null}

\* The sprints getVelocityMetrics chooses its recent five from.
SprintsOfScope(st, teamId) ==
  {sp \in st.sprints : teamId = "none" \/ sp.teamId = teamId}

\* include: { tickets: { where: { status: DONE, storyPoints: { not: null } } } }
\* summed over the sprints T (the sum of sprintVelocities).
SumSprintVelocities(st, T) ==
  SumStoryPoints({k \in DoneTicketsOfSprints(st, T) : k.storyPoints # Null})

\* The return of getVelocityMetrics, T being the recent sprints fetched.
\* averageVelocity is kept in hundredths: with at most five sprints,
\* avgVel * 100 is never halfway between two integers, so that Math.round
\* of the double is the rounding of the exact quotient.
VelocityMetrics(st, teamName, sprintId, T) ==
  LET teamId == GetTeamId(st, teamName)
      totalStoryPoints == SumStoryPoints(VelocityTickets(st, teamId, sprintId))
      n == Cardinality(T)
  IN  [team |-> teamName,
       sprintId |-> sprintId,
       totalStoryPoints |-> totalStoryPoints,
       completedStoryPoints |-> totalStoryPoints,
       velocity |-> totalStoryPoints,
       averageVelocity100 |->
         IF n > 0 THEN RoundDiv(SumSprintVelocities(st, T) * PercentScale, n) ELSE 0]

\* getBugRateMetrics: prisma.ticket.count({ where: { teamId?, type?,
\* createdAt: { gte: startDate } } }) with startDate = subDays(new Date(), days).
CountTicketsSince(st, teamId, type, days) ==
  Cardinality({k \in st.tickets :
                 /\ teamId = "none" \/ k.teamId = teamId
                 /\ type = "any" \/ k.type = type
                 /\ k.createdAt >= Now - days * HoursPerDay})

\* Math.round((bugTickets / totalTickets) * 10000), the bug rate in
\* hundredths of a per cent, in double arithmetic.
MetricsBugRate100(bugTickets, totalTickets) ==
  IF totalTickets # 0
  THEN MathRound(FloatTimes(FloatDivide(bugTickets, totalTickets),
                            PercentScale * PercentScale))
  ELSE 0

\* The return of getBugRateMetrics for the two counts.
BugRateMetrics(teamName, days, totalTickets, bugTickets, bugRate100) ==
  [team |-> teamName,
   period |-> ToString(days) \o " days",
   totalTickets |-> totalTickets,
   bugTickets |-> bugTickets,
   bugRate100 |-> bugRate100]

\* getResolutionTimeMetrics: prisma.ticket.findMany({ where: { teamId?,
\* status: DONE, resolvedAt: { not: null }, createdAt: { gte: startDate } } })
ResolvedTicketsSince(st, teamId, days) ==
  {k \in st.tickets :
     /\ teamId = "none" \/ k.teamId = teamId
     /\ k.status = "DONE"
     /\ k.resolvedAt # Null
     /\ k.createdAt >= Now - days * HoursPerDay}

\* date-fns differenceInDays(later, earlier): the number of full days
\* between the two instants, truncated towards zero (timestamps in hours,
\* in a zone without daylight saving).
DifferenceInDays(later, earlier) ==
  IF later >= earlier
  THEN (later - earlier) \div HoursPerDay
  ELSE -((earlier - later) \div HoursPerDay)

\* resolvedTickets.map(t => differenceInDays(t.resolvedAt!, t.createdAt))
\*   .sort((a, b) => a - b): the day counts of the tickets R in ascending
\* order, one entry per ticket.
RECURSIVE SortedResolutionTimes(_)
SortedResolutionTimes(R) ==
  IF R = {} THEN << >>
  ELSE LET k == CHOOSE x \in R : \A y \in R :
                  DifferenceInDays(x.resolvedAt, x.createdAt)
                    <= DifferenceInDays(y.resolvedAt, y.createdAt)
       IN  <<DifferenceInDays(k.resolvedAt, k.createdAt)>>
             \o SortedResolutionTimes(R \ {k})

\* resolutionTimes.reduce((sum, t) => sum + t, 0)
RECURSIVE SumSeq(_)
SumSeq(s) == IF s = << >> THEN 0 ELSE Head(s) + SumSeq(Tail(s))

\* MedianTimes100 with the fault of taking the upper middle element for an
\* even number of entries too.
MedianTimes100_UpperMiddle(resolutionTimes) ==
  PercentScale * resolutionTimes[(Len(resolutionTimes) \div 2) + 1]

\* The median of the sorted day counts, in hundredths: resolutionTimes[mid]
\* for an odd length, (resolutionTimes[mid - 1] + resolutionTimes[mid]) / 2
\* for an even one, with mid = Math.floor(length / 2) counted from 0.
MedianTimes100(resolutionTimes) ==
  LET mid == Len(resolutionTimes) \div 2
  IN  IF Len(resolutionTimes) % 2 # 0
      THEN PercentScale * resolutionTimes[mid + 1]
      ELSE (PercentScale * (resolutionTimes[mid] + resolutionTimes[mid + 1])) \div 2

\* The return of getResolutionTimeMetrics over the tickets R fetched.
\* Average and median are kept in hundredths of a day: with fewer than
\* eight tickets avg * 100 is never halfway between two integers, so that
\* Math.round of the double is the rounding of the exact quotient.
ResolutionTimeMetrics(teamName, days, R) ==
  LET resolutionTimes == SortedResolutionTimes(R)
      n == Len(resolutionTimes)
  IN  IF n = 0
      THEN [team |-> teamName,
            period |-> ToString(days) \o " days",
            averageResolutionTime100 |-> 0,
            medianResolutionTime100 |-> 0,
            minResolutionTime |-> 0,
            maxResolutionTime |-> 0]
      ELSE [team |-> teamName,
            period |-> ToString(days) \o " days",
            averageResolutionTime100 |->
              RoundDiv(SumSeq(resolutionTimes) * PercentScale, n),
            medianResolutionTime100 |-> MedianTimes100(resolutionTimes),
            minResolutionTime |-> resolutionTimes[1],
            maxResolutionTime |-> resolutionTimes[n]]

(***************************************************************************)
(* The metrics router (routes/metrics.ts).  A request carries its query    *)
(* string or body as optional texts; a response is a status with a body.   *)
(***************************************************************************)

DigitValue ==
  [c \in {"0", "1", "2", "3", "4", "5", "6", "7", "8", "9"} |->
     CASE c = "0" -> 0 [] c = "1" -> 1 [] c = "2" -> 2 [] c = "3" -> 3
       [] c = "4" -> 4 [] c = "5" -> 5 [] c = "6" -> 6 [] c = "7" -> 7
       [] c = "8" -> 8 [] c = "9" -> 9]

IsDigits(s) == \A i \in 1..Len(s) : SubSeq(s, i, i) \in DOMAIN DigitValue

RECURSIVE DecimalValue(_)
DecimalValue(s) ==
  IF s = "" THEN 0
  ELSE 10 * DecimalValue(SubSeq(s, 1, Len(s) - 1)) + DigitValue[SubSeq(s, Len(s), Len(s))]

\* z.coerce.number(): Number(text) for the texts of the model, which are
\* strings of decimal digits (Number('') is 0) or texts that are no number
\* (NaN, which the schema rejects).
CoerceNumber(s) ==
  IF IsDigits(s) THEN [nan |-> FALSE, value |-> DecimalValue(s)]
  ELSE [nan |-> TRUE, value |-> 0]

\* z.string().min(1)
NonEmptyString(x) == x.defined /\ Len(x.text) >= 1

\* z.coerce.number().min(1).max(365).optional()
OptionalDays(x) ==
  ~x.defined \/ ( /\ ~CoerceNumber(x.text).nan
                  /\ CoerceNumber(x.text).value >= 1
                  /\ CoerceNumber(x.text).value <= 365 )

\* schema.parse(req.query) / textQuerySchema.parse(req.body) succeeds.
SchemaAccepts(req) ==
  CASE req.route = "velocity"        -> NonEmptyString(req.team)
    [] req.route = "bug-rate"        -> NonEmptyString(req.team) /\ OptionalDays(req.days)
    [] req.route = "mean-resolution" -> NonEmptyString(req.team) /\ OptionalDays(req.days)
    [] req.route = "all"             -> NonEmptyString(req.team)
    [] req.route = "text-query"      -> NonEmptyString(req.query)

\* const { team, days = 30 } = metricsQuerySchema.parse(req.query)
DaysOf(req) == IF req.days.defined THEN CoerceNumber(req.days.text).value ELSE 30

Request(route, team, sprintId, days, query) ==
  [route |-> route, team |-> team, sprintId |-> sprintId, days |-> days, query |-> query]

\* The requests clients send in the model: each route with a missing, an
\* empty, a known and an unknown team, look-back windows inside and
\* outside the accepted range, and texts for the interpreter.
RouteRequests ==
  {Request("velocity", t, Undefined, Undefined, Undefined) :
     t \in {Undefined, Captured("all"), Captured("Backend Team"), Captured("backend team")}}
  \cup {Request("velocity", Captured("all"), Captured("s9"), Undefined, Undefined)}
  \cup {Request("bug-rate", Captured(t), Undefined, Undefined, Undefined) :
          t \in {"all", "Backend Team", "backend team"}}
  \cup {Request("bug-rate", Captured("all"), Undefined, Captured(d), Undefined) :
          d \in {"0", "abc", "365"}}
  \cup {Request("mean-resolution", Captured(t), Undefined, Undefined, Undefined) :
          t \in {"all", "DevOps Team", ""}}
  \cup {Request("mean-resolution", Captured(t), Undefined, Captured("365"), Undefined) :
          t \in {"all", "Frontend Team", "Backend Team", "backend team"}}
  \cup {Request("mean-resolution", Captured("all"), Undefined, Captured("366"), Undefined)}
  \cup {Request("all", t, Undefined, Undefined, Undefined) :
          t \in {Undefined, Captured("all")}}
  \cup {Request("text-query", Undefined, Undefined, Undefined, q) :
          q \in {Undefined, Captured(""), Captured("average resolution time"),
                 Captured("resolution time")}}

NoData == [kind |-> "none"]

\* res.status(status).json({ success, error?, data? })
Response(status, success, error, data) ==
  [status |-> status, success |-> success, error |-> error, data |-> data]

ValidationError == Response(400, FALSE, "Validation error", NoData)
ServerError(error) == Response(500, FALSE, error, NoData)
Success(data) == Response(200, TRUE, "", data)

\* The counts (bugTickets, totalTickets) getBugRateMetrics can obtain for
\* the requests of the model, and its rounded rate tabulated over them.
MetricsBugCountPairs ==
  {<<CountTicketsSince(st, GetTeamId(st, req.team.text), "BUG", DaysOf(req)),
     CountTicketsSince(st, GetTeamId(st, req.team.text), "any", DaysOf(req))>> :
     st \in AllStores,
     req \in {r \in RouteRequests : r.route \in {"bug-rate", "all"} /\ SchemaAccepts(r)}}

MetricsBugRateOf ==
  [pr \in MetricsBugCountPairs |-> MetricsBugRate100(pr[1], pr[2])]

\* MetricsService.getVelocityMetrics(team, sprintId) on the database st,
\* T being the recent sprints the store returns.
GetVelocityMetrics(st, req, T) ==
  VelocityMetrics(st, req.team.text, req.sprintId, T)

\* MetricsService.getBugRateMetrics(team, days) on the database st.
GetBugRateMetrics(st, req) ==
  LET teamId == GetTeamId(st, req.team.text)
      totalTickets == CountTicketsSince(st, teamId, "any", DaysOf(req))
      bugTickets == CountTicketsSince(st, teamId, "BUG", DaysOf(req))
  IN  BugRateMetrics(req.team.text, DaysOf(req), totalTickets, bugTickets,
                     MetricsBugRateOf[<<bugTickets, totalTickets>>])

\* MetricsService.getResolutionTimeMetrics(team, days) on the database st.
GetResolutionTimeMetrics(st, req) ==
  ResolutionTimeMetrics(req.team.text, DaysOf(req),
    ResolvedTicketsSince(st, GetTeamId(st, req.team.text), DaysOf(req)))

\* MetricsService.getAllMetrics(team): the three metrics with their
\* default parameters and the time of the report.
GetAllMetrics(st, req, T) ==
  [velocity |-> VelocityMetrics(st, req.team.text, Undefined, T),
   bugRate |-> GetBugRateMetrics(st, req),
   resolutionTime |-> GetResolutionTimeMetrics(st, req),
   generatedAt |-> Now]

\* The exchange of call p moves on: a response is sent, or the service is
\* called.
Respond(p, response) ==
  requests' = [requests EXCEPT ![p].stage = "responded",
                               ![p].responses = Append(@, response)]

\* A route handler up to its await: the request is parsed against the
\* route's schema; a ZodError is caught and answered with 400, otherwise
\* the service is called.
RouteParse(p, req) ==
  /\ requests[p].stage = "none"
  /\ pc[p] = "idle"
  /\ requests' = [requests EXCEPT ![p] =
       IF SchemaAccepts(req)
       THEN [stage |-> "service", route |-> req.route, team |-> req.team,
             sprintId |-> req.sprintId, days |-> req.days, query |-> req.query,
             called |-> TRUE, responses |-> << >>]
       ELSE [stage |-> "responded", route |-> req.route, team |-> req.team,
             sprintId |-> req.sprintId, days |-> req.days, query |-> req.query,
             called |-> FALSE, responses |-> <<ValidationError>>]]
  /\ UNCHANGED <<store, pc, received, dispatch, foundTeam, counts, storeCalls,
                 dispatched, outcome, envelope, lastIndex, returned, dashboard>>

Awaiting(p, route) == requests[p].stage = "service" /\ requests[p].route = route

\* GET /velocity after the await: the service threw (a store call failed)
\* and the catch block answers 500, or it returned and the handler answers
\* with the metrics.
GetVelocity(p) ==
  /\ Awaiting(p, "velocity")
  /\ \E ok \in BOOLEAN :
       IF ~ok THEN Respond(p, ServerError("Failed to fetch velocity metrics"))
       ELSE \E T \in LatestSprintsOf[SprintsOfScope(store,
                                       GetTeamId(store, requests[p].team.text))] :
              Respond(p, Success(GetVelocityMetrics(store, requests[p], T)))
  /\ UNCHANGED <<store, pc, received, dispatch, foundTeam, counts, storeCalls,
                 dispatched, outcome, envelope, lastIndex, returned, dashboard>>

\* GET /bug-rate after the await.
GetBugRate(p) ==
  /\ Awaiting(p, "bug-rate")
  /\ \E ok \in BOOLEAN :
       IF ~ok THEN Respond(p, ServerError("Failed to fetch bug rate metrics"))
       ELSE Respond(p, Success(GetBugRateMetrics(store, requests[p])))
  /\ UNCHANGED <<store, pc, received, dispatch, foundTeam, counts, storeCalls,
                 dispatched, outcome, envelope, lastIndex, returned, dashboard>>

\* GET /mean-resolution after the await.
GetMeanResolution(p) ==
  /\ Awaiting(p, "mean-resolution")
  /\ \E ok \in BOOLEAN :
       IF ~ok THEN Respond(p, ServerError("Failed to fetch resolution time metrics"))
       ELSE Respond(p, Success(GetResolutionTimeMetrics(store, requests[p])))
  /\ UNCHANGED <<store, pc, received, dispatch, foundTeam, counts, storeCalls,
                 dispatched, outcome, envelope, lastIndex, returned, dashboard>>

\* GET /all after the await.
GetAll(p) ==
  /\ Awaiting(p, "all")
  /\ \E ok \in BOOLEAN :
       IF ~ok THEN Respond(p, ServerError("Failed to fetch all metrics"))
       ELSE \E T \in LatestSprintsOf[SprintsOfScope(store,
                                       GetTeamId(store, requests[p].team.text))] :
              Respond(p, Success(GetAllMetrics(store, requests[p], T)))
  /\ UNCHANGED <<store, pc, received, dispatch, foundTeam, counts, storeCalls,
                 dispatched, outcome, envelope, lastIndex, returned, dashboard>>

\* POST /text-query after the await: processTextQuery of call p rejected
\* and the catch block answers 500, or it resolved and the handler answers
\* with the envelope.
PostTextQuery(p) ==
  /\ Awaiting(p, "text-query")
  /\ Done(p)
  /\ IF outcome[p] = "rejected"
     THEN Respond(p, ServerError("Failed to process text query"))
     ELSE Respond(p, Success(envelope[p]))
  /\ UNCHANGED <<store, pc, received, dispatch, foundTeam, counts, storeCalls,
                 dispatched, outcome, envelope, lastIndex, returned, dashboard>>

\* The router on the seeded database: requests arrive and are served
\* concurrently; POST /text-query calls the interpreter with the text of
\* the body.
RouteInit ==
  /\ store = SeededStore
  /\ pc = [p \in Calls |-> "idle"]
  /\ received = [p \in Calls |-> ""]
  /\ dispatch = [p \in Calls |-> NoDispatch]
  /\ foundTeam = [p \in Calls |-> NoTeam]
  /\ counts = [p \in Calls |-> NoCounts]
  /\ storeCalls = [p \in Calls |-> << >>]
  /\ dispatched = [p \in Calls |-> << >>]
  /\ outcome = [p \in Calls |-> "pending"]
  /\ envelope = [p \in Calls |-> NoEnvelope]
  /\ lastIndex = [k \in 1..NumRules |-> 0]
  /\ requests = [p \in Calls |-> NoRequest]
  /\ returned = [p \in Calls |-> NoReturn]
  /\ dashboard = InitialDashboard

RouteNext ==
  \E p \in Calls :
    \/ \E req \in RouteRequests : RouteParse(p, req)
    \/ GetVelocity(p)
    \/ GetBugRate(p)
    \/ GetMeanResolution(p)
    \/ GetAll(p)
    \/ Awaiting(p, "text-query") /\ ProcessTextQuery(p, requests[p].query.text)
    \/ HandleResolutionTimeQuery(p)
    \/ PostTextQuery(p)

RouteSpec == RouteInit /\ [][RouteNext]_vars

\* Call p served a request and answered it with the service's data.
Answered(p, route) ==
  /\ requests[p].stage = "responded"
  /\ requests[p].route = route
  /\ Len(requests[p].responses) = 1
  /\ requests[p].responses[1].status = 200

\* The request of call p names a team that is not 'all' and that no team
\* of the database has as its exact name.
NamesUnknownTeam(p) ==
  /\ requests[p].team.defined
  /\ requests[p].team.text # "all"
  /\ \A t \in store.teams : t.name # requests[p].team.text

\* What the service returns for the request of call p on the database st
\* when the team of the request is replaced by name, without the label.
FiguresFor(st, p, name) ==
  LET req == [requests[p] EXCEPT !.team = Captured(name)]
  IN  CASE req.route = "velocity" ->
             {[GetVelocityMetrics(st, req, T) EXCEPT !.team = ""] :
                T \in LatestSprintsOf[st.sprints]}
        [] req.route = "bug-rate" ->
             {[GetBugRateMetrics(st, req) EXCEPT !.team = ""]}
        [] req.route = "mean-resolution" ->
             {[GetResolutionTimeMetrics(st, req) EXCEPT !.team = ""]}

\* C25: getVelocityMetrics, getBugRateMetrics and getResolutionTimeMetrics,
\* called with a team name other than 'all' that no team bears exactly,
\* do not return the figures of all teams under that name: whenever the
\* figures of all teams differ from those of no ticket at all, the data
\* answered are not the figures of all teams.
C25_UnknownTeamNotAggregated ==
  \A p \in Calls :
    \A route \in {"velocity", "bug-rate", "mean-resolution"} :
      (Answered(p, route) /\ NamesUnknownTeam(p)) =>
        [requests[p].responses[1].data EXCEPT !.team = ""]
          \notin (FiguresFor(store, p, "all") \ FiguresFor(EmptyStore, p, "all"))

\* GET /mean-resolution?team=backend team&days=365 (no team has this exact
\* name: the team is 'Backend Team') was answered with the figures of the
\* four resolved tickets of all teams, labelled 'backend team', while the
\* Backend team has one resolved ticket of four days.
C25_AllTeamsUnderUnknownNameReached ==
  \E p \in Calls :
    /\ Answered(p, "mean-resolution")
    /\ requests[p].team.text = "backend team"
    /\ NamesUnknownTeam(p)
    /\ requests[p].responses[1].data.team = "backend team"
    /\ requests[p].responses[1].data.averageResolutionTime100 = 300
    /\ requests[p].responses[1].data.maxResolutionTime = 4
    /\ requests[p].responses[1].data.minResolutionTime = 1
    /\ [requests[p].responses[1].data EXCEPT !.team = ""]
         \in FiguresFor(store, p, "all")
    /\ [requests[p].responses[1].data EXCEPT !.team = ""]
         \notin FiguresFor(store, p, "Backend Team")

\* The tickets getResolutionTimeMetrics takes into account for the request
\* of call p, and the day count of one of them.
QualifyingTickets(p) ==
  ResolvedTicketsSince(store, GetTeamId(store, requests[p].team.text), DaysOf(requests[p]))

DayCount(k) == DifferenceInDays(k.resolvedAt, k.createdAt)

\* v is the day count at position i (from 1) when the day counts of the
\* tickets R are put in ascending order.
AtRank(R, i, v) ==
  /\ \E k \in R : DayCount(k) = v
  /\ Cardinality({k \in R : DayCount(k) < v}) <= i - 1
  /\ Cardinality({k \in R : DayCount(k) > v}) <= Cardinality(R) - i

\* C26: getResolutionTimeMetrics reports average, median, minimum and
\* maximum 0 when no ticket qualifies; otherwise the minimum and maximum
\* are the smallest and the largest day count of the qualifying tickets,
\* median and average lie between them, and the median is the middle day
\* count for an odd number of tickets and the mean of the two middle ones
\* for an even number (average and median in hundredths of a day).
C26_ResolutionStatistics ==
  \A p \in Calls :
    Answered(p, "mean-resolution") =>
      LET d == requests[p].responses[1].data
          R == QualifyingTickets(p)
          n == Cardinality(R)
      IN  IF n = 0
          THEN /\ d.averageResolutionTime100 = 0
               /\ d.medianResolutionTime100 = 0
               /\ d.minResolutionTime = 0
               /\ d.maxResolutionTime = 0
          ELSE /\ \A k \in R : d.minResolutionTime <= DayCount(k)
               /\ \E k \in R : d.minResolutionTime = DayCount(k)
               /\ \A k \in R : d.maxResolutionTime >= DayCount(k)
               /\ \E k \in R : d.maxResolutionTime = DayCount(k)
               /\ PercentScale * d.minResolutionTime <= d.medianResolutionTime100
               /\ d.medianResolutionTime100 <= PercentScale * d.maxResolutionTime
               /\ PercentScale * d.minResolutionTime <= d.averageResolutionTime100
               /\ d.averageResolutionTime100 <= PercentScale * d.maxResolutionTime
               /\ IF n % 2 = 1
                  THEN \E v \in {DayCount(k) : k \in R} :
                         /\ AtRank(R, (n + 1) \div 2, v)
                         /\ d.medianResolutionTime100 = PercentScale * v
                  ELSE \E a, b \in {DayCount(k) : k \in R} :
                         /\ AtRank(R, n \div 2, a)
                         /\ AtRank(R, (n \div 2) + 1, b)
                         /\ 2 * d.medianResolutionTime100 = PercentScale * (a + b)

\* One request was answered for a team without any resolved ticket (all
\* four figures 0), another for the four resolved tickets of all teams,
\* whose day counts are 1, 3, 4 and 4: minimum 1, maximum 4, median 3.5,
\* average 3.
C26_EmptyAndEvenReached ==
  \E p, r \in Calls :
    /\ Answered(p, "mean-resolution")
    /\ requests[p].team.text = "DevOps Team"
    /\ QualifyingTickets(p) = {}
    /\ requests[p].responses[1].data.maxResolutionTime = 0
    /\ Answered(r, "mean-resolution")
    /\ requests[r].team.text = "all"
    /\ Cardinality(QualifyingTickets(r)) = 4
    /\ requests[r].responses[1].data.minResolutionTime = 1
    /\ requests[r].responses[1].data.maxResolutionTime = 4
    /\ requests[r].responses[1].data.medianResolutionTime100 = 350
    /\ requests[r].responses[1].data.averageResolutionTime100 = 300

\* The whole-day resolution time the interpreter's handler assigns to a
\* ticket and the one getResolutionTimeMetrics assigns to it.
InterpreterDays(k) == ResolutionDays(k)
MetricsDays(k) == DifferenceInDays(k.resolvedAt, k.createdAt)

\* Call p is an answered resolution-time query of the interpreter and call
\* r an answered GET /mean-resolution for team 'all' with a window that
\* covers every resolved ticket of the store.
SameTicketsAnswered(p, r) ==
  /\ ResolutionTimeAnswered(p)
  /\ Answered(r, "mean-resolution")
  /\ requests[r].team.text = "all"
  /\ QualifyingTickets(r) = ResolvedTickets(store)

\* C27: over the same DONE tickets with resolvedAt set, the interpreter's
\* resolution-time handler and getResolutionTimeMetrics give every ticket
\* the same number of whole days and report the same average.
C27_SameResolutionTimes ==
  \A p, r \in Calls :
    SameTicketsAnswered(p, r) =>
      /\ \A k \in ResolvedTickets(store) : InterpreterDays(k) = MetricsDays(k)
      /\ envelope[p].result.averageResolutionTime100
           = requests[r].responses[1].data.averageResolutionTime100

\* Both have answered over the four resolved tickets of the seeded store:
\* the ticket resolved 36 hours after its creation counts 2 days in the
\* interpreter and 1 day in the metrics service, and the averages are
\* 3.25 and 3.
C27_DifferentAveragesReached ==
  \E p, r \in Calls :
    /\ SameTicketsAnswered(p, r)
    /\ \E k \in ResolvedTickets(store) :
         /\ k.resolvedAt - k.createdAt = HoursPerDay + 12
         /\ InterpreterDays(k) = 2
         /\ MetricsDays(k) = 1
    /\ envelope[p].result.averageResolutionTime100 = 325
    /\ requests[r].responses[1].data.averageResolutionTime100 = 300

\* The request of call p as it was received.
RequestOf(p) ==
  Request(requests[p].route, requests[p].team, requests[p].sprintId,
          requests[p].days, requests[p].query)

\* C28: every request to a metrics route gets exactly one response (none
\* before the handler has finished): 400 with the error 'Validation
\* error' exactly when the schema rejects the request, and then the
\* service has not been called; otherwise 500 when the service threw and
\* 200 with success = true when it returned; and POST /text-query with a
\* non-empty query is never answered with 500.
C28_OneResponsePerRequest ==
  \A p \in Calls :
    /\ requests[p].stage # "responded" => requests[p].responses = << >>
    /\ requests[p].stage = "responded" =>
         LET res == requests[p].responses[1] IN
         /\ Len(requests[p].responses) = 1
         /\ res.status \in {200, 400, 500}
         /\ res.status = 400 <=> ~SchemaAccepts(RequestOf(p))
         /\ res.status = 400 => res.error = "Validation error" /\ ~requests[p].called
         /\ res.status # 400 => requests[p].called
         /\ res.status = 200 <=> res.success
         /\ requests[p].route = "text-query" =>
              /\ res.status = 500 <=> outcome[p] = "rejected"
              /\ res.status = 200 => res.data = envelope[p]
              /\ NonEmptyString(requests[p].query) => res.status # 500

\* POST /text-query with the body { query: 'resolution time' } passed the
\* schema, the interpreter's only store call failed, its promise rejected,
\* and the route answered 500.
C28_TextQueryServerErrorReached ==
  \E p \in Calls :
    /\ requests[p].stage = "responded"
    /\ requests[p].route = "text-query"
    /\ requests[p].query = Captured("resolution time")
    /\ SchemaAccepts(RequestOf(p))
    /\ dispatch[p].path = "keyword"
    /\ FailedCalls(p) # {}
    /\ outcome[p] = "rejected"
    /\ requests[p].responses =
         <<Response(500, FALSE, "Failed to process text query", NoData)>>

(***************************************************************************)
(* The frontend's ApiClient (lib/apiClient.ts).                            *)
(***************************************************************************)

\* keywordMatches of processQueryLocally, in declaration order.
LocalKeywordMatches ==
  << [category |-> "velocity",
      keywords |-> {"velocity", "story point", "sprint", "throughput", "capacity",
                    "delivery"}],
     [category |-> "bugs",
      keywords |-> {"bug", "defect", "error", "issue", "quality", "failure"}],
     [category |-> "resolution",
      keywords |-> {"resolution", "fix", "close", "time", "duration", "cycle time"}],
     [category |-> "trends",
      keywords |-> {"trend", "q1", "q2", "q3", "q4", "quarter", "month", "week"}],
     [category |-> "performance",
      keywords |-> {"performance", "efficiency", "productivity", "metrics"}] >>

\* keywords.filter(keyword => queryLower.includes(keyword)).length
LocalMatches(c, queryLower) ==
  Cardinality({kw \in LocalKeywordMatches[c].keywords : Includes(queryLower, kw)})

\* The forEach of processQueryLocally from category c on: a category
\* replaces bestMatch when its count exceeds maxMatches.
RECURSIVE LocalBestFrom(_, _, _, _)
LocalBestFrom(c, queryLower, bestMatch, maxMatches) ==
  IF c > Len(LocalKeywordMatches) THEN bestMatch
  ELSE IF LocalMatches(c, queryLower) > maxMatches
       THEN LocalBestFrom(c + 1, queryLower, LocalKeywordMatches[c].category,
                          LocalMatches(c, queryLower))
       ELSE LocalBestFrom(c + 1, queryLower, bestMatch, maxMatches)

LocalBestMatch(query) == LocalBestFrom(1, ToLowerCase(query), "", 0)

MockDays == 90
SprintStep == 14
WeekStep == 7

\* The array a mock generator builds for '3months': one entry per step of
\* the loop for (i = 0; i < days; i += step).  The values of the entries
\* come from Math.random and are left out; the generator and the number of
\* entries are kept.
MockData(generator, step) ==
  [kind |-> "mock", generator |-> generator,
   length |-> (MockDays + step - 1) \div step]

EmptyArray == [kind |-> "mock", generator |-> "none", length |-> 0]

\* ApiClient.processQueryLocally
ProcessQueryLocally(query) ==
  LET bestMatch == LocalBestMatch(query)
  IN  CASE bestMatch = "velocity" ->
             Envelope(query, MockData("velocity", SprintStep),
                      "Showing team velocity trends based on your query")
        [] bestMatch = "bugs" ->
             Envelope(query, MockData("bugRate", WeekStep),
                      "Showing bug rate analysis based on your query")
        [] bestMatch = "resolution" ->
             Envelope(query, MockData("resolution", WeekStep),
                      "Showing resolution time metrics based on your query")
        [] bestMatch = "trends" ->
             Envelope(query, MockData("velocity", SprintStep),
                      "Showing productivity trends based on your query")
        [] bestMatch = "performance" ->
             Envelope(query, MockData("velocity", SprintStep),
                      "Showing team performance metrics based on your query")
        [] OTHER ->
             Envelope(query, EmptyArray,
                      "Try asking about \"team velocity trends\", \"bug rates this quarter\", " \o
                      "\"resolution times\", or \"sprint performance\"")

\* The texts the frontend sends through processTextQuery.
ClientQueries ==
  {"sprint capacity bug", "team performance stats", "resolution time",
   "xyz random gibberish", ""}

ClientRequestsOf ==
  [q \in ClientQueries |->
     Request("text-query", Undefined, Undefined, Undefined, Captured(q))]

LocalAnswerOf == [q \in ClientQueries |-> ProcessQueryLocally(q)]

\* response.data.result is truthy: it is not null.
ResultTruthy(result) == result # NullResult

\* response.data.result.length > 0: the length of an array; an object
\* payload has no property length, and undefined > 0 is false.
LengthPositive(result) ==
  IF result.kind = "teamPerformance" THEN Cardinality(result.rows) > 0
  ELSE FALSE

\* ApiClient.processTextQuery once the exchange is over: fetch failed
\* (reached = FALSE) or the response is not ok, and request throws; or the
\* body { success, data } is examined.
ApiClient_ProcessTextQuery(p) ==
  /\ returned[p].state = "pending"
  /\ requests[p].stage = "responded"
  /\ requests[p].route = "text-query"
  /\ \E reached \in BOOLEAN :
       LET res   == requests[p].responses[1]
           query == requests[p].query.text
       IN  returned' = [returned EXCEPT ![p] =
             IF ~reached \/ res.status # 200
             THEN [state |-> "returned", failed |-> TRUE,
                   value |-> LocalAnswerOf[query]]
             ELSE IF ResultTruthy(res.data.result) /\ LengthPositive(res.data.result)
             THEN [state |-> "returned", failed |-> FALSE, value |-> res.data]
             ELSE [state |-> "returned", failed |-> FALSE,
                   value |-> LocalAnswerOf[query]]]
  /\ UNCHANGED <<store, pc, received, dispatch, foundTeam, counts, storeCalls,
                 dispatched, outcome, envelope, lastIndex, requests, dashboard>>

\* The frontend's text queries against the backend, on an empty and on the
\* seeded database.
ClientInit ==
  /\ store \in Stores
  /\ pc = [p \in Calls |-> "idle"]
  /\ received = [p \in Calls |-> ""]
  /\ dispatch = [p \in Calls |-> NoDispatch]
  /\ foundTeam = [p \in Calls |-> NoTeam]
  /\ counts = [p \in Calls |-> NoCounts]
  /\ storeCalls = [p \in Calls |-> << >>]
  /\ dispatched = [p \in Calls |-> << >>]
  /\ outcome = [p \in Calls |-> "pending"]
  /\ envelope = [p \in Calls |-> NoEnvelope]
  /\ lastIndex = [k \in 1..NumRules |-> 0]
  /\ requests = [p \in Calls |-> NoRequest]
  /\ returned = [p \in Calls |-> NoReturn]
  /\ dashboard = InitialDashboard

ClientNext ==
  \E p \in Calls :
    \/ \E q \in ClientQueries : RouteParse(p, ClientRequestsOf[q])
    \/ Awaiting(p, "text-query") /\ ProcessTextQuery(p, requests[p].query.text)
    \/ HandleVelocityQuery_FindSprints(p)
    \/ HandleResolutionTimeQuery(p)
    \/ HandleTeamPerformanceQuery(p)
    \/ PostTextQuery(p)
    \/ ApiClient_ProcessTextQuery(p)

ClientSpec == ClientInit /\ [][ClientNext]_vars

\* The backend answered the text query of call p with status 200 and the
\* client received the answer.
BackendSucceeded(p) ==
  /\ returned[p].state = "returned"
  /\ ~returned[p].failed
  /\ requests[p].responses[1].status = 200

\* The result of an envelope is an empty array.
IsEmptyArray(result) ==
  result.kind = "teamPerformance" /\ result.rows = {}

\* C29: ApiClient.processTextQuery returns the backend's envelope
\* unchanged whenever the backend call succeeds with a result that is
\* neither null nor an empty array, be it an object payload or an array;
\* it returns locally generated data only when the request fails or the
\* backend's result is null or empty.
C29_BackendEnvelopePassedOn ==
  \A p \in Calls :
    returned[p].state = "returned" =>
      /\ ( /\ BackendSucceeded(p)
           /\ envelope[p].result # NullResult
           /\ ~IsEmptyArray(envelope[p].result) )
           => returned[p].value = envelope[p]
      /\ returned[p].value.result.kind = "mock" =>
           \/ returned[p].failed
           \/ requests[p].responses[1].status # 200
           \/ envelope[p].result = NullResult
           \/ IsEmptyArray(envelope[p].result)

\* The backend answered 'sprint capacity bug' with status 200 and the velocity
\* payload of all teams, an object; the client received it and returned
\* seven mock velocity entries instead.
C29_ObjectPayloadReplacedReached ==
  \E p \in Calls :
    /\ BackendSucceeded(p)
    /\ requests[p].query.text = "sprint capacity bug"
    /\ envelope[p].result.kind = "velocity"
    /\ envelope[p].result.sprintsAnalyzed = 5
    /\ requests[p].responses[1].data = envelope[p]
    /\ returned[p].value # envelope[p]
    /\ returned[p].value.result = [kind |-> "mock", generator |-> "velocity", length |-> 7]

(***************************************************************************)
(* The Dashboard page (pages/dashboard.tsx).  A load is one call of        *)
(* loadDashboardData: it keeps the filters of the render that created it   *)
(* and stands at its health check, at its three fetches, or is done.       *)
(***************************************************************************)

MaxLoads == 2

\* The changes the FilterPanel makes: onTeamChange and onPeriodChange.
FilterChanges ==
  {[field |-> "team", value |-> t] : t \in {"all", "frontend"}}
  \cup {[field |-> "dateRange", value |-> d] : d \in {"3months", "6months"}}

\* { ...prev, ...newFilters }
MergeFilters(prev, change) ==
  IF change.field = "team" THEN [prev EXCEPT !.team = change.value]
  ELSE [prev EXCEPT !.dateRange = change.value]

\* What a metrics call of the ApiClient resolves with for the filters f:
\* the backend's data for f, or mock data for f.dateRange when the request
\* failed.
FetchedData(f, ok) == [filters |-> f, mock |-> ~ok, empty |-> FALSE]

InFlight == {i \in 1..Len(dashboard.loads) : dashboard.loads[i].stage # "done"}

\* handleFilterChange: setFilters merges the change; the next render makes
\* a new loadDashboardData, so that its effect is due.
HandleFilterChange(change) ==
  /\ dashboard' = [dashboard EXCEPT
                     !.filters = MergeFilters(@, change),
                     !.effectDue = TRUE]
  /\ UNCHANGED <<store, pc, received, dispatch, foundTeam, counts, storeCalls,
                 dispatched, outcome, envelope, lastIndex, requests, returned>>

\* useEffect(() => { loadDashboardData() }, [loadDashboardData]): the call
\* runs up to its first await: isLoading is set and the health check sent.
LoadDashboardData ==
  /\ dashboard.effectDue
  /\ Len(dashboard.loads) < MaxLoads
  /\ dashboard' = [dashboard EXCEPT
                     !.effectDue = FALSE,
                     !.loads = Append(@, [filters |-> dashboard.filters,
                                          stage |-> "healthCheck"]),
                     !.state.isLoading = TRUE,
                     !.state.error = FALSE]
  /\ UNCHANGED <<store, pc, received, dispatch, foundTeam, counts, storeCalls,
                 dispatched, outcome, envelope, lastIndex, requests, returned>>

\* Load i after await apiClient.healthCheck(), which never rejects: the
\* three metrics calls are sent with the filters of the load.
LoadDashboardData_HealthChecked(i) ==
  /\ i \in 1..Len(dashboard.loads)
  /\ dashboard.loads[i].stage = "healthCheck"
  /\ dashboard' = [dashboard EXCEPT !.loads[i].stage = "metrics"]
  /\ UNCHANGED <<store, pc, received, dispatch, foundTeam, counts, storeCalls,
                 dispatched, outcome, envelope, lastIndex, requests, returned>>

\* Load i after await Promise.all([...]): each of the three calls resolved
\* with the backend's data or with mock data, and setState stores them and
\* clears isLoading.
LoadDashboardData_Loaded(i) ==
  /\ i \in 1..Len(dashboard.loads)
  /\ dashboard.loads[i].stage = "metrics"
  /\ \E v, b, r \in BOOLEAN :
       dashboard' = [dashboard EXCEPT
                       !.loads[i].stage = "done",
                       !.state.velocityData = FetchedData(dashboard.loads[i].filters, v),
                       !.state.bugRateData = FetchedData(dashboard.loads[i].filters, b),
                       !.state.resolutionData = FetchedData(dashboard.loads[i].filters, r),
                       !.state.isLoading = FALSE]
  /\ UNCHANGED <<store, pc, received, dispatch, foundTeam, counts, storeCalls,
                 dispatched, outcome, envelope, lastIndex, requests, returned>>

DashboardInit ==
  /\ store = SeededStore
  /\ pc = [p \in Calls |-> "idle"]
  /\ received = [p \in Calls |-> ""]
  /\ dispatch = [p \in Calls |-> NoDispatch]
  /\ foundTeam = [p \in Calls |-> NoTeam]
  /\ counts = [p \in Calls |-> NoCounts]
  /\ storeCalls = [p \in Calls |-> << >>]
  /\ dispatched = [p \in Calls |-> << >>]
  /\ outcome = [p \in Calls |-> "pending"]
  /\ envelope = [p \in Calls |-> NoEnvelope]
  /\ lastIndex = [k \in 1..NumRules |-> 0]
  /\ requests = [p \in Calls |-> NoRequest]
  /\ returned = [p \in Calls |-> NoReturn]
  /\ dashboard = InitialDashboard

DashboardNext ==
  \/ \E change \in FilterChanges : HandleFilterChange(change)
  \/ LoadDashboardData
  \/ \E i \in 1..MaxLoads : LoadDashboardData_HealthChecked(i)
  \/ \E i \in 1..MaxLoads : LoadDashboardData_Loaded(i)

DashboardSpec == DashboardInit /\ [][DashboardNext]_vars

=============================================================================
